---- MODULE Spec2Model ----
(***************************************************************************)
(* Model of reflex_cli: the Config record (core/config.py) with its        *)
(* reflection-driven validator, loaders and override composition, and the  *)
(* deploy command (v2/cli.py).                                             *)
(*                                                                         *)
(* Python values are records [t, s, e]: t is type(value).__name__, s is    *)
(* str(value) for scalars, e holds the elements of a list or the items of  *)
(* a dict (insertion ordered).  Exceptions are records [exc, msg]; msg is  *)
(* the sequence of the parts the f-string of the raise site interpolates.  *)
(* The interpreter is the CPython 3.11/3.12 the package is installed for   *)
(* (src/.venv/lib/python3.11, python3.12).                                 *)
(***************************************************************************)
EXTENDS Integers, Sequences, FiniteSets, TLC

\* ------------------------------------------------------------ Python values

PyNone == [t |-> "NoneType", s |-> "None", e |-> <<>>]
PyStr(x) == [t |-> "str", s |-> x, e |-> <<>>]
PyInt(x) == [t |-> "int", s |-> x, e |-> <<>>]
PyBool(x) == [t |-> "bool", s |-> x, e |-> <<>>]
PyList(xs) == [t |-> "list", s |-> "", e |-> xs]
PyItem(k, v) == [t |-> "item", s |-> "", e |-> <<k, v>>]
PyDict(items) == [t |-> "dict", s |-> "", e |-> items]

\* bool(value)
Truthy(v) ==
    CASE v.t = "NoneType" -> FALSE
      [] v.t = "str" -> v.s # ""
      [] v.t = "int" -> v.s # "0"
      [] v.t = "bool" -> v.s = "True"
      [] v.t \in {"list", "dict"} -> Len(v.e) > 0
      [] OTHER -> TRUE

\* isinstance(value, cls); bool is a subclass of int
IsInstance(v, cls) ==
    CASE cls = "int" -> v.t \in {"int", "bool"}
      [] OTHER -> v.t = cls

RECURSIVE JoinRepr(_, _)
RECURSIVE Repr(_)
\* repr(value)
Repr(v) ==
    CASE v.t = "str" -> "'" \o v.s \o "'"
      [] v.t = "list" -> "[" \o JoinRepr(v.e, 1) \o "]"
      [] v.t = "dict" -> "{" \o JoinRepr(v.e, 1) \o "}"
      [] v.t = "item" -> Repr(v.e[1]) \o ": " \o Repr(v.e[2])
      [] v.t = "PosixPath" -> "PosixPath('" \o v.s \o "')"
      [] OTHER -> v.s

JoinRepr(xs, i) ==
    IF i > Len(xs) THEN ""
    ELSE Repr(xs[i]) \o (IF i < Len(xs) THEN ", " ELSE "") \o JoinRepr(xs, i + 1)

\* str(value), what an f-string interpolates
Str(v) == IF v.t = "str" THEN v.s ELSE Repr(v)

\* dict.get(key, default) on a dict value
RECURSIVE DictGetFrom(_, _, _, _)
DictGetFrom(items, i, key, default) ==
    IF i > Len(items) THEN default
    ELSE IF items[i].e[1] = key THEN items[i].e[2]
    ELSE DictGetFrom(items, i + 1, key, default)

DictGet(d, key, default) == DictGetFrom(d.e, 1, key, default)

DictHas(d, key) == \E i \in 1..Len(d.e) : d.e[i].e[1] = key

\* ------------------------------------------------------------- exceptions

\* utils/exceptions.py: the class hierarchy
ExcBase(c) ==
    CASE c = "ConfigError" -> "ReflexHostingCliError"
      [] c = "ConfigInvalidFieldValueError" -> "ReflexHostingCliError"
      [] c = "NotAuthenticatedError" -> "ReflexHostingCliError"
      [] c = "ReflexHostingCliError" -> "Exception"
      [] c = "ValueError" -> "Exception"
      [] c = "TypeError" -> "Exception"
      [] c = "AttributeError" -> "Exception"
      [] c = "ImportError" -> "Exception"
      [] c = "YAMLError" -> "Exception"
      [] c = "TOMLDecodeError" -> "ValueError"
      [] c = "Exception" -> "BaseException"
      [] OTHER -> "object"

RECURSIVE IsSubclass(_, _)
IsSubclass(c, base) ==
    IF c = base THEN TRUE
    ELSE IF c \in {"object", "none"} THEN FALSE
    ELSE IsSubclass(ExcBase(c), base)

NoExc == [exc |-> "none", msg |-> <<>>]
Raise(c, m) == [exc |-> c, msg |-> m]
Raised(x) == x.exc # "none"

\* Two statements in sequence: an exception of the first leaves the function
\* and the second does not run.
Seq2(first, second) == IF Raised(first) THEN first ELSE second

\* ------------------------------------------------------- type annotations

TClass(n) == [o |-> "None", n |-> n, a |-> <<>>, lits |-> <<>>]
TLiteral(vals) == [o |-> "typing.Literal", n |-> "Literal", a |-> <<>>, lits |-> vals]
TList(item) == [o |-> "list", n |-> "list", a |-> <<item>>, lits |-> <<>>]
TDict(k, v) == [o |-> "dict", n |-> "dict", a |-> <<k, v>>, lits |-> <<>>]

\* The value of the annotation `left | None` as typing.get_type_hints
\* evaluates it: a typing alias (Literal[...]) implements __or__ and yields
\* typing.Union; a class or a builtin generic alias (str, dict[K, V]) yields
\* a types.UnionType.
PyOrNone(left) ==
    [o |-> IF left.o = "typing.Literal" THEN "typing.Union" ELSE "types.UnionType",
     n |-> "Optional", a |-> <<left, TClass("NoneType")>>, lits |-> <<>>]

RegionOption ==
    TLiteral(<<"ams", "arn", "atl", "bog", "bom", "bos", "cdg", "den", "dfw",
               "ewr", "eze", "fra", "gdl", "gig", "gru", "hkg", "iad", "jnb",
               "lax", "lhr", "mad", "mia", "nrt", "ord", "otp", "phx", "qro",
               "scl", "sea", "sin", "sjc", "syd", "waw", "yul", "yyz">>)

VmType ==
    TLiteral(<<"c1m.5", "c1m1", "c1m2", "c2m1", "c2m4", "c4m4", "c4m8",
               "pc1m2", "pc2m4", "pc2m8", "pc4m8">>)

RECURSIVE JoinLits(_, _)
JoinLits(xs, i) ==
    IF i > Len(xs) THEN ""
    ELSE "'" \o xs[i] \o "'" \o (IF i < Len(xs) THEN ", " ELSE "") \o JoinLits(xs, i + 1)

\* str(tuple of strings)
TupleStr(xs) == "(" \o JoinLits(xs, 1) \o (IF Len(xs) = 1 THEN "," ELSE "") \o ")"

ClassRepr(cls) == "<class '" \o cls \o "'>"

\* -------------------------------------------------------------- validators

ValidateType(value, cls, key) ==
    IF IsInstance(value, cls) THEN NoExc
    ELSE IF key # ""
    THEN Raise("ConfigInvalidFieldValueError",
               <<"Invalid value for ", key, ". Expected a ", ClassRepr(cls),
                 ", got ", Str(value), " of type ", value.t, ".">>)
    ELSE Raise("ConfigInvalidFieldValueError",
               <<"Invalid value. Expected a ", ClassRepr(cls),
                 ", got ", Str(value), " of type ", value.t, ".">>)

ValidateLiteral(value, key, valid_values) ==
    LET e1 == ValidateType(value, "str", key)
    IN  IF Raised(e1) THEN e1
        ELSE IF \E i \in 1..Len(valid_values) : valid_values[i] = value.s THEN NoExc
        ELSE IF key # ""
        THEN Raise("ConfigInvalidFieldValueError",
                   <<"Invalid value for ", key, ". Expected one of ",
                     TupleStr(valid_values), ", got ", Str(value), ".">>)
        ELSE Raise("ConfigInvalidFieldValueError",
                   <<"Invalid value. Expected one of ",
                     TupleStr(valid_values), ", got ", Str(value), ".">>)

RECURSIVE ValidateDispatch(_, _, _)
RECURSIVE ValidateListItems(_, _, _, _)
RECURSIVE ValidateDictItems(_, _, _, _)

ValidateList(value, item_type, key) ==
    LET e1 == ValidateType(value, "list", key)
    IN  IF Raised(e1) THEN e1 ELSE ValidateListItems(value.e, 1, item_type, key)

ValidateListItems(items, i, item_type, key) ==
    IF i > Len(items) THEN NoExc
    ELSE Seq2(ValidateDispatch(items[i], item_type,
                               IF key # "" THEN key \o " item" ELSE ""),
              ValidateListItems(items, i + 1, item_type, key))

ValidateDict(value, key_type, value_type, key) ==
    LET e1 == ValidateType(value, "dict", key)
    IN  IF Raised(e1) THEN e1
        ELSE ValidateDictItems(value.e, 1, key_type, value_type)

\* The loop variable of `for key, val in value.items()` is named key and
\* replaces the parameter: the labels are built from the dict key.
ValidateDictItems(items, i, key_type, value_type) ==
    IF i > Len(items) THEN NoExc
    ELSE LET key == items[i].e[1]
             val == items[i].e[2]
         IN  Seq2(ValidateDispatch(key, key_type,
                                   IF Truthy(key) THEN Str(key) \o " key" ELSE ""),
                  Seq2(ValidateDispatch(val, value_type,
                                        IF Truthy(key) THEN Str(key) \o " value" ELSE ""),
                       ValidateDictItems(items, i + 1, key_type, value_type)))

ValidateOptional(value, non_optional_type, key) ==
    IF value # PyNone THEN ValidateDispatch(value, non_optional_type, key) ELSE NoExc

IsPrimitive(ty) == ty.o = "None" /\ ty.n \in {"str", "int", "float", "bool"}

ValidateDispatch(value, ty, key) ==
    LET e1 == IF IsPrimitive(ty) THEN ValidateType(value, ty.n, key) ELSE NoExc
        origin == ty.o
    IN  IF Raised(e1) THEN e1
        ELSE IF origin = "typing.Union"
        THEN IF Len(ty.a) = 2 /\ \E i \in 1..2 : ty.a[i] = TClass("NoneType")
             THEN ValidateOptional(value,
                                   IF ty.a[1] # TClass("NoneType") THEN ty.a[1] ELSE ty.a[2],
                                   key)
             ELSE NoExc
        ELSE IF origin = "list" THEN ValidateList(value, ty.a[1], key)
        ELSE IF origin = "typing.Literal" THEN ValidateLiteral(value, key, ty.lits)
        ELSE IF origin = "dict" THEN ValidateDict(value, ty.a[1], ty.a[2], key)
        ELSE NoExc

\* ------------------------------------------------------------ class Config

FieldSeq ==
    <<"name", "description", "vmtype", "regions", "hostname", "envfile",
      "project", "packages", "appid", "strategy", "_cloud_config_path">>

FieldNames == {FieldSeq[i] : i \in 1..Len(FieldSeq)}

FieldIdx(f) == CHOOSE i \in 1..Len(FieldSeq) : FieldSeq[i] = f

\* typing.get_type_hints(Config): the annotations of the dataclass fields
FieldType(f) ==
    CASE f \in {"name", "description", "hostname", "project", "appid", "strategy"}
           -> PyOrNone(TClass("str"))
      [] f = "vmtype" -> PyOrNone(VmType)
      [] f = "regions" -> PyOrNone(TDict(RegionOption, TClass("int")))
      [] f = "envfile" -> TClass("str")
      [] f = "packages" -> TList(TClass("str"))
      [] OTHER -> PyOrNone(TClass("Path"))

\* dataclasses.field(default=...), default_factory=list for packages
FieldDefault(f) ==
    CASE f = "envfile" -> PyStr(".env")
      [] f = "packages" -> PyList(<<>>)
      [] OTHER -> PyNone

\* A Config instance: its field values in declaration order.
MkConfig(vals) == [t |-> "Config", s |-> "", e |-> vals]
IsConfig(v) == v.t = "Config"
Attr(c, f) == c.e[FieldIdx(f)]

\* pathlib.Path(dir) / name; Path.name is the last component
MkPath(dir, name) == [t |-> "PosixPath", s |-> dir \o "/" \o name, e |-> <<PyStr(name)>>]
PathName(p) == p.e[1].s

\* str.startswith("_") on a field name
IsPrivate(f) == f = "_cloud_config_path"

\* The outcome of a call: the value returned, or the exception that left it.
\* calls lists the loaders the call went through, each with how it ended.
Return(v) == [ret |-> v, exc |-> "none", msg |-> <<>>, calls |-> <<>>]
Throw(e) == [ret |-> PyNone, exc |-> e.exc, msg |-> e.msg, calls |-> <<>>]
Traced(fn, out) == [out EXCEPT !.calls = <<[fn |-> fn, exc |-> out.exc]>> \o @]

\* One iteration of the loop of __post_init__ over dataclasses.fields(self):
\* an exception of _validate_dispatch that `except ValueError` catches is
\* re-raised with the file name in front when the instance has a source
\* path and dropped otherwise; any other exception leaves __post_init__.
PostInitHandler(self, e) ==
    IF ~Raised(e) THEN NoExc
    ELSE IF IsSubclass(e.exc, "ValueError")
    THEN IF Truthy(Attr(self, "_cloud_config_path"))
         THEN Raise("ConfigInvalidFieldValueError",
                    <<"Invalid ", PathName(Attr(self, "_cloud_config_path")), ". ">> \o e.msg)
         ELSE NoExc
    ELSE e

PostInitField(self, f) ==
    IF IsPrivate(f) THEN NoExc
    ELSE PostInitHandler(self, ValidateDispatch(Attr(self, f), FieldType(f), f))

RECURSIVE PostInitFrom(_, _)
PostInitFrom(self, i) ==
    IF i > Len(FieldSeq) THEN NoExc
    ELSE Seq2(PostInitField(self, FieldSeq[i]), PostInitFrom(self, i + 1))

PostInit(self) == PostInitFrom(self, 1)

\* What a constructor call yields once the fields are assigned:
\* the instance, or the exception of __post_init__.
InitResult(self, e) == IF Raised(e) THEN Throw(e) ELSE Return(self)
NewInstance(self) == InitResult(self, PostInit(self))

\* Config(**kwargs): the generated __init__ followed by __post_init__.
\* kwargs is a dict value with str keys.
ConfigInit(kwargs) ==
    IF \E i \in 1..Len(kwargs.e) : kwargs.e[i].e[1].s \notin FieldNames
    THEN Throw(Raise("TypeError", <<"Config.__init__() got an unexpected keyword argument">>))
    ELSE NewInstance(MkConfig([i \in 1..Len(FieldSeq) |->
                                 DictGet(kwargs, PyStr(FieldSeq[i]), FieldDefault(FieldSeq[i]))]))

\* A _filter_dict that keeps null values.
RECURSIVE FilterItems_KeepNull(_, _)
FilterItems_KeepNull(items, i) ==
    IF i > Len(items) THEN <<>>
    ELSE (IF /\ items[i].e[1].t = "str"
             /\ items[i].e[1].s \in FieldNames
          THEN <<items[i]>> ELSE <<>>) \o FilterItems_KeepNull(items, i + 1)

\* Config._filter_dict
RECURSIVE FilterItems(_, _)
FilterItems(items, i) ==
    IF i > Len(items) THEN <<>>
    ELSE (IF /\ items[i].e[1].t = "str"
             /\ items[i].e[1].s \in FieldNames
             /\ items[i].e[2] # PyNone
          THEN <<items[i]>> ELSE <<>>) \o FilterItems(items, i + 1)

FilterDict(data) ==
    IF data.t # "dict"
    THEN Throw(Raise("AttributeError", <<"'", data.t, "' object has no attribute 'items'">>))
    ELSE Return(PyDict(FilterItems(data.e, 1)))

\* A profile load that overlays the profile on the top-level keys.
NarrowEnv_Overlay(data, env) ==
    IF data.t # "dict"
    THEN Throw(Raise("AttributeError", <<"'", data.t, "' object has no attribute 'get'">>))
    ELSE LET envs == DictGet(data, PyStr("env"), PyDict(<<>>))
         IN  IF envs.t # "dict"
             THEN Throw(Raise("AttributeError", <<"'", envs.t, "' object has no attribute 'get'">>))
             ELSE Return(PyDict(DictGet(envs, env, PyDict(<<>>)).e \o data.e))

\* data.get("env", {}).get(env, {})
NarrowEnv(data, env) ==
    IF data.t # "dict"
    THEN Throw(Raise("AttributeError", <<"'", data.t, "' object has no attribute 'get'">>))
    ELSE LET envs == DictGet(data, PyStr("env"), PyDict(<<>>))
         IN  IF envs.t # "dict"
             THEN Throw(Raise("AttributeError", <<"'", envs.t, "' object has no attribute 'get'">>))
             ELSE Return(DictGet(envs, env, PyDict(<<>>)))

\* cls(_cloud_config_path=path, **data)
ConfigFromData(path, data) ==
    IF DictHas(data, PyStr("_cloud_config_path"))
    THEN Throw(Raise("TypeError", <<"got multiple values for keyword argument '_cloud_config_path'">>))
    ELSE ConfigInit(PyDict(<<PyItem(PyStr("_cloud_config_path"), path)>> \o data.e))

\* The part of from_yaml and from_toml after the document is read:
\* narrow to the profile, filter, construct.
LoadFiltered(path, f) == IF f.exc # "none" THEN f ELSE ConfigFromData(path, f.ret)
LoadNarrowed(path, n) == IF n.exc # "none" THEN n ELSE LoadFiltered(path, FilterDict(n.ret))
LoadData(path, data0, env) ==
    LoadNarrowed(path, IF Truthy(env) THEN NarrowEnv(data0, env) ELSE Return(data0))

\* ------------------------------------------------------------- the loaders

\* A file on disk: absent, unparsable, or holding a document (doc is what
\* yaml.safe_load / tomllib.load returns for it).
Absent == [st |-> "absent", doc |-> PyNone]
Malformed == [st |-> "malformed", doc |-> PyNone]
FileOf(d) == [st |-> "ok", doc |-> d]

\* Path.cwd() / constants.Dirs.CLOUD_YAML and Path.cwd() / "pyproject.toml"
YamlPath == MkPath("/app", "cloud.yml")
TomlPath == MkPath("/app", "pyproject.toml")

\* Config.from_yaml(env=env) on the default path; pyyaml: `import yaml` works
FromYaml(file, pyyaml, env) ==
    Traced("from_yaml",
        IF file.st = "absent"
        THEN Throw(Raise("ConfigError", <<"Config file not found at ", YamlPath.s, ".">>))
        ELSE IF ~pyyaml
        THEN Throw(Raise("ConfigError", <<"YAML support is not available. Please install PyYAML to use this feature.">>))
        ELSE IF file.st = "malformed"
        THEN Throw(Raise("YAMLError", <<"could not parse ", YamlPath.s>>))
        ELSE LoadData(YamlPath, file.doc, env))

\* A from_toml that reads a missing [tool.reflex-cloud] table as an empty one.
FromToml_EmptyTable(file, env) ==
    Traced("from_toml",
        IF file.st = "absent"
        THEN Throw(Raise("ConfigError", <<"Config file not found at ", TomlPath.s, ".">>))
        ELSE IF file.st = "malformed"
        THEN Throw(Raise("TOMLDecodeError", <<"could not parse ", TomlPath.s>>))
        ELSE IF file.doc.t # "dict"
        THEN Throw(Raise("ConfigError", <<"Invalid TOML file format at ", TomlPath.s, ". Expected a dictionary.">>))
        ELSE IF DictGet(file.doc, PyStr("tool"), PyDict(<<>>)).t # "dict"
        THEN Throw(Raise("ConfigError", <<"Invalid TOML file format at ", TomlPath.s, ". Expected 'tool' to be a dictionary.">>))
        ELSE LoadData(TomlPath, DictGet(DictGet(file.doc, PyStr("tool"), PyDict(<<>>)),
                                        PyStr("reflex-cloud"), PyDict(<<>>)), env))

\* Config.from_toml(env=env) on the default path (tomllib is part of 3.11)
FromToml(file, env) ==
    Traced("from_toml",
        IF file.st = "absent"
        THEN Throw(Raise("ConfigError", <<"Config file not found at ", TomlPath.s, ".">>))
        ELSE IF file.st = "malformed"
        THEN Throw(Raise("TOMLDecodeError", <<"could not parse ", TomlPath.s>>))
        ELSE IF file.doc.t # "dict"
        THEN Throw(Raise("ConfigError", <<"Invalid TOML file format at ", TomlPath.s, ". Expected a dictionary.">>))
        ELSE LET tools == DictGet(file.doc, PyStr("tool"), PyDict(<<>>))
             IN  IF tools.t # "dict"
                 THEN Throw(Raise("ConfigError", <<"Invalid TOML file format at ", TomlPath.s, ". Expected 'tool' to be a dictionary.">>))
                 ELSE IF ~DictHas(tools, PyStr("reflex-cloud"))
                 THEN Throw(Raise("ConfigError", <<"Invalid TOML file format at ", TomlPath.s, ". Expected 'tool.reflex-cloud' to be present.">>))
                 ELSE LoadData(TomlPath, DictGet(tools, PyStr("reflex-cloud"), PyNone), env))

\* An inner try that swallows every CLI error of from_toml.
OrNoneToml_CatchCli(t) ==
    IF ~IsSubclass(t.exc, "ReflexHostingCliError") THEN t
    ELSE [Return(PyNone) EXCEPT !.calls = t.calls]

\* Config.from_yaml_or_toml_or_none(env)
\* the inner try: `return cls.from_toml(env=env)`, `except ConfigError: return None`
OrNoneToml(t) ==
    IF ~IsSubclass(t.exc, "ConfigError") THEN t
    ELSE [Return(PyNone) EXCEPT !.calls = t.calls]

\* An outer try that falls through to pyproject.toml on every CLI error of from_yaml.
OrNoneYaml_CatchCli(y, tfile, env) ==
    IF ~IsSubclass(y.exc, "ReflexHostingCliError") THEN y
    ELSE [OrNoneToml(FromToml(tfile, env)) EXCEPT !.calls = y.calls \o @]

\* the outer try: `return cls.from_yaml(env=env)`, `except ConfigError:` the inner try
OrNoneYaml(y, tfile, env) ==
    IF ~IsSubclass(y.exc, "ConfigError") THEN y
    ELSE [OrNoneToml(FromToml(tfile, env)) EXCEPT !.calls = y.calls \o @]

FromYamlOrTomlOrNone(yfile, tfile, pyyaml, env) ==
    OrNoneYaml(FromYaml(yfile, pyyaml, env), tfile, env)

\* Config(): every field at its default
DefaultConfig == ConfigInit(PyDict(<<>>))

\* Config.from_yaml_or_toml_or_default(): `from_yaml_or_toml_or_none() or cls()`
OrDefault(r) ==
    IF r.exc # "none" \/ Truthy(r.ret) THEN r
    ELSE [DefaultConfig EXCEPT !.calls = r.calls]

FromYamlOrTomlOrDefault(yfile, tfile, pyyaml) ==
    OrDefault(FromYamlOrTomlOrNone(yfile, tfile, pyyaml, PyNone))

\* A replace that copies the public fields only.
RECURSIVE ReplaceFrom_PublicOnly(_, _, _)
ReplaceFrom_PublicOnly(self, kwargs, i) ==
    IF i > Len(FieldSeq) THEN <<>>
    ELSE (IF DictHas(kwargs, PyStr(FieldSeq[i])) \/ IsPrivate(FieldSeq[i]) THEN <<>>
          ELSE <<PyItem(PyStr(FieldSeq[i]), self.e[i])>>)
         \o ReplaceFrom_PublicOnly(self, kwargs, i + 1)

\* dataclasses.replace(self, **kwargs): every field not named in kwargs is
\* taken from self, then the class is constructed anew.
RECURSIVE ReplaceFrom(_, _, _)
ReplaceFrom(self, kwargs, i) ==
    IF i > Len(FieldSeq) THEN <<>>
    ELSE (IF DictHas(kwargs, PyStr(FieldSeq[i])) THEN <<>>
          ELSE <<PyItem(PyStr(FieldSeq[i]), self.e[i])>>) \o ReplaceFrom(self, kwargs, i + 1)

\* A with_overrides that assigns the overrides to the receiver.
WithOverridesSelf_InPlace(self, kwargs) ==
    MkConfig([i \in 1..Len(FieldSeq) |-> DictGet(kwargs, PyStr(FieldSeq[i]), self.e[i])])

\* The receiver after with_overrides(**kwargs): the method only passes self
\* to dataclasses.replace, which reads its fields and assigns none.
WithOverridesSelf(self, kwargs) == self

\* Config.with_overrides(**kwargs)
WithOverrides(self, kwargs) == ConfigInit(PyDict(kwargs.e \o ReplaceFrom(self, kwargs, 1)))

\* An exists() that only asks whether a source path was recorded.
Exists_PathOnly(self, yfile, tfile) ==
    IF Truthy(Attr(self, "_cloud_config_path")) THEN Return(PyBool("True"))
    ELSE Return(PyBool("False"))

\* Config.exists(): bool(self._cloud_config_path) and self._cloud_config_path.exists()
Exists(self, yfile, tfile) ==
    LET path == Attr(self, "_cloud_config_path")
    IN  IF ~Truthy(path) THEN Return(PyBool("False"))
        ELSE IF path.t # "PosixPath"
        THEN Throw(Raise("AttributeError", <<"'", path.t, "' object has no attribute 'exists'">>))
        ELSE IF \/ path = YamlPath /\ yfile.st # "absent"
                \/ path = TomlPath /\ tfile.st # "absent"
        THEN Return(PyBool("True")) ELSE Return(PyBool("False"))

\* ------------------------------------------------------------------ inputs

\* The largest number of entries the two configuration files hold together.
MaxDocKeys == 2
\* The largest number of keyword arguments of a direct construction.
MaxKwargs == 2

S(k, v) == PyItem(PyStr(k), v)

\* Entries a cloud.yml may hold (YAML has null).
YamlPairs ==
    <<S("name", PyStr("app")),
      S("vmtype", PyStr("c2m4")), S("vmtype", PyStr("c1m1")), S("vmtype", PyStr("bogus")),
      S("hostname", PyInt("5")),
      S("envfile", PyNone),
      S("color", PyStr("red")),
      S("_cloud_config_path", PyStr("x.yml"))>>

\* Entries a [tool.reflex-cloud] table may hold (TOML has no null).
TomlPairs ==
    <<S("name", PyStr("app")),
      S("vmtype", PyStr("c2m4")), S("vmtype", PyStr("bogus")),
      S("color", PyStr("red")),
      S("_cloud_config_path", PyStr("x.toml"))>>

\* Keyword arguments of with_overrides(...).
OverridePairs ==
    <<S("name", PyStr("web")), S("name", PyInt("5")),
      S("vmtype", PyStr("c4m8")), S("vmtype", PyStr("bogus")),
      S("packages", PyStr("not-a-list")),
      S("envfile", PyStr("prod.env"))>>

\* Keyword arguments of Config(...).
CtorPairs ==
    <<S("name", PyStr("app")), S("name", PyInt("5")), S("name", PyNone),
      S("description", PyStr("demo")), S("description", PyList(<<>>)),
      S("vmtype", PyStr("c2m4")), S("vmtype", PyStr("bogus")), S("vmtype", PyInt("5")),
      S("vmtype", PyNone),
      S("regions", PyDict(<<S("ams", PyInt("1"))>>)),
      S("regions", PyDict(<<S("xyz", PyInt("1"))>>)),
      S("regions", PyDict(<<S("ams", PyStr("two"))>>)),
      S("regions", PyDict(<<S("ams", PyBool("True"))>>)),
      S("regions", PyDict(<<S("", PyInt("1"))>>)),
      S("regions", PyStr("ams")),
      S("hostname", PyStr("demo.example.com")), S("hostname", PyInt("5")),
      S("envfile", PyStr("prod.env")), S("envfile", PyInt("5")), S("envfile", PyNone),
      S("project", PyStr("p-1")), S("project", PyInt("5")),
      S("packages", PyList(<<PyStr("ffmpeg")>>)), S("packages", PyStr("not-a-list")),
      S("packages", PyList(<<PyStr("ffmpeg"), PyInt("1")>>)), S("packages", PyNone),
      S("appid", PyStr("a-1")), S("appid", PyBool("True")),
      S("strategy", PyStr("rolling")), S("strategy", PyInt("5")),
      S("_cloud_config_path", YamlPath)>>

\* The strictly increasing index sequences of length n over 1..Len(pairs)
\* whose entries have distinct keys: the sections of n entries.
RECURSIVE IdxSeqs(_, _)
IdxSeqs(pairs, n) ==
    IF n = 0 THEN {<<>>}
    ELSE {Append(c[1], c[2]) :
            c \in {d \in IdxSeqs(pairs, n - 1) \X (1..Len(pairs)) :
                     /\ Len(d[1]) = 0 \/ d[1][Len(d[1])] < d[2]
                     /\ \A a \in 1..Len(d[1]) : pairs[d[1][a]].e[1] # pairs[d[2]].e[1]}}

Section(pairs, q) == [a \in 1..Len(q) |-> pairs[q[a]]]

Sections(pairs, n) == {Section(pairs, q) : q \in IdxSeqs(pairs, n)}

\* The documents with n entries in all: top-level entries and, under
\* env.staging, profile entries; or one of the shapes without entries.
Profiled(top, prof) ==
    PyDict(top \o <<S("env", PyDict(<<S("staging", PyDict(prof))>>))>>)

YamlDocs(n) ==
    UNION {{Profiled(top, prof) : top \in Sections(YamlPairs, a),
                                  prof \in Sections(YamlPairs, n - a)} : a \in 0..n}
    \cup {PyDict(top) : top \in Sections(YamlPairs, n)}
    \cup {PyDict(top \o <<S("env", PyDict(<<>>))>>) : top \in Sections(YamlPairs, n)}
    \cup (IF n = 0
          THEN {PyNone, PyStr("hello"),
                PyDict(<<S("env", PyStr("oops"))>>),
                PyDict(<<S("env", PyDict(<<S("staging", PyNone)>>))>>)}
          ELSE {})

CloudTable(section) ==
    PyDict(<<S("tool", PyDict(<<S("reflex-cloud", section)>>))>>)

TomlDocs(n) ==
    UNION {{CloudTable(Profiled(top, prof)) : top \in Sections(TomlPairs, a),
                                              prof \in Sections(TomlPairs, n - a)} : a \in 0..n}
    \cup {CloudTable(PyDict(top)) : top \in Sections(TomlPairs, n)}
    \cup (IF n = 0
          THEN {PyDict(<<>>), PyDict(<<S("tool", PyStr("x"))>>),
                PyDict(<<S("tool", PyDict(<<>>))>>),
                PyDict(<<S("tool", PyDict(<<S("poetry", PyDict(<<>>))>>))>>),
                CloudTable(PyInt("5"))}
          ELSE {})

YamlFiles(n) == {FileOf(d) : d \in YamlDocs(n)} \cup (IF n = 0 THEN {Absent, Malformed} ELSE {})
TomlFiles(n) == {FileOf(d) : d \in TomlDocs(n)} \cup (IF n = 0 THEN {Absent, Malformed} ELSE {})

\* The env argument of the loaders.
Envs == {PyNone, PyStr("staging"), PyStr("prod")}

KwargSets == UNION {{PyDict(sec) : sec \in Sections(CtorPairs, n)} : n \in 0..MaxKwargs}
OverrideSets == UNION {{PyDict(sec) : sec \in Sections(OverridePairs, n)} : n \in 0..1}

\* ------------------------------------------------------------------- state

VARIABLES
    yamlFile,   \* ./cloud.yml
    tomlFile,   \* ./pyproject.toml
    pyyaml,     \* whether PyYAML is installed
    last,       \* the last call on Config: its arguments and how it ended
    pc,         \* where a run of deploy stands
    arg,        \* the keyword arguments deploy was called with
    cfgFile,    \* what hosting.read_config returns: a Config or None
    selected,   \* the globally selected project, hosting.get_selected_project()
    loc,        \* deploy's local variables
    tmpdir,     \* the temporary export directory: "none", "exists", "deleted"
    log,        \* the calls deploy made, in order, each with its result
    exitc       \* how deploy ended

cfgVars == <<yamlFile, tomlFile, pyyaml, last>>
depVars == <<pc, arg, cfgFile, selected, loc, tmpdir, log, exitc>>
vars == <<yamlFile, tomlFile, pyyaml, last, pc, arg, cfgFile, selected, loc, tmpdir, log, exitc>>

Call(op, env, kwargs, base, out) ==
    [op |-> op, env |-> env, kwargs |-> kwargs, base |-> base,
     ret |-> out.ret, exc |-> out.exc, msg |-> out.msg, calls |-> out.calls]

Idle == Call("idle", PyNone, PyDict(<<>>), PyNone, Return(PyNone))

\* The Config instance the program holds: the one the last call returned,
\* or else the receiver of that call.
Held == IF IsConfig(last.ret) THEN last.ret ELSE last.base

\* deploy is not running.
NoDeploy ==
    /\ pc = "off"
    /\ arg = PyDict(<<>>)
    /\ cfgFile = PyNone
    /\ selected = PyNone
    /\ loc = PyNone
    /\ tmpdir = "none"
    /\ log = <<>>
    /\ exitc = "none"

\* A run makes one construction or one load, then works on its result.
Construct ==
    /\ last.op = "idle"
    /\ \E kw \in KwargSets : last' = Call("Config", PyNone, kw, PyNone, ConfigInit(kw))
    /\ UNCHANGED <<yamlFile, tomlFile, pyyaml>>
    /\ UNCHANGED depVars

LoadYaml ==
    /\ last.op = "idle"
    /\ \E env \in Envs :
         last' = Call("from_yaml", env, PyDict(<<>>), PyNone, FromYaml(yamlFile, pyyaml, env))
    /\ UNCHANGED <<yamlFile, tomlFile, pyyaml>>
    /\ UNCHANGED depVars

LoadToml ==
    /\ last.op = "idle"
    /\ \E env \in Envs :
         last' = Call("from_toml", env, PyDict(<<>>), PyNone, FromToml(tomlFile, env))
    /\ UNCHANGED <<yamlFile, tomlFile, pyyaml>>
    /\ UNCHANGED depVars

LoadOrNone ==
    /\ last.op = "idle"
    /\ \E env \in Envs :
         last' = Call("from_yaml_or_toml_or_none", env, PyDict(<<>>), PyNone,
                      FromYamlOrTomlOrNone(yamlFile, tomlFile, pyyaml, env))
    /\ UNCHANGED <<yamlFile, tomlFile, pyyaml>>
    /\ UNCHANGED depVars

LoadOrDefault ==
    /\ last.op = "idle"
    /\ last' = Call("from_yaml_or_toml_or_default", PyNone, PyDict(<<>>), PyNone,
                    FromYamlOrTomlOrDefault(yamlFile, tomlFile, pyyaml))
    /\ UNCHANGED <<yamlFile, tomlFile, pyyaml>>
    /\ UNCHANGED depVars

Override ==
    /\ IsConfig(Held)
    /\ last.op \notin {"with_overrides", "exists"}
    /\ \E kw \in OverrideSets :
         last' = Call("with_overrides", PyNone, kw, WithOverridesSelf(Held, kw),
                      WithOverrides(Held, kw))
    /\ UNCHANGED <<yamlFile, tomlFile, pyyaml>>
    /\ UNCHANGED depVars

CheckExists ==
    /\ IsConfig(Held)
    /\ last.op # "exists"
    /\ last' = Call("exists", PyNone, PyDict(<<>>), Held, Exists(Held, yamlFile, tomlFile))
    /\ UNCHANGED <<yamlFile, tomlFile, pyyaml>>
    /\ UNCHANGED depVars

RemoveYaml ==
    /\ yamlFile.st # "absent"
    /\ yamlFile' = Absent
    /\ UNCHANGED <<tomlFile, pyyaml, last>>
    /\ UNCHANGED depVars

RemoveToml ==
    /\ tomlFile.st # "absent"
    /\ tomlFile' = Absent
    /\ UNCHANGED <<yamlFile, pyyaml, last>>
    /\ UNCHANGED depVars

\* Direct construction and override composition, no files.
InitConfig ==
    /\ yamlFile = Absent
    /\ tomlFile = Absent
    /\ pyyaml = TRUE
    /\ last = Idle
    /\ NoDeploy

NextConfig == Construct \/ Override

SpecConfig == InitConfig /\ [][NextConfig]_vars

\* Loading: the files are on disk before the program starts.
InitLoad ==
    /\ \E ny \in 0..MaxDocKeys : \E nt \in 0..(MaxDocKeys - ny) :
         /\ yamlFile \in YamlFiles(ny)
         /\ tomlFile \in TomlFiles(nt)
         \* without PyYAML the content of cloud.yml is never read
         /\ pyyaml \in (IF ny = 0 THEN BOOLEAN ELSE {TRUE})
    /\ last = Idle
    /\ NoDeploy

NextLoad ==
    \/ LoadYaml \/ LoadToml \/ LoadOrNone \/ LoadOrDefault
    \/ Override \/ CheckExists \/ RemoveYaml \/ RemoveToml

SpecLoad == InitLoad /\ [][NextLoad]_vars

\* Validation alone: one call of _validate_dispatch(value, _type, key).

\* the annotations the fields of Config are built from
Annotation(n) ==
    CASE n = "str" -> TClass("str")
      [] n = "int" -> TClass("int")
      [] n = "float" -> TClass("float")
      [] n = "bool" -> TClass("bool")
      [] n = "list[str]" -> TList(TClass("str"))
      [] n = "dict[RegionOption, int]" -> TDict(RegionOption, TClass("int"))
      [] n = "RegionOption" -> RegionOption
      [] n = "VmType | None" -> PyOrNone(VmType)

Annotations ==
    {"str", "int", "float", "bool", "list[str]", "dict[RegionOption, int]",
     "RegionOption", "VmType | None"}

DispatchValues ==
    {PyNone, PyStr("ams"), PyStr(""), PyInt("1"), PyBool("True"), PyBool("False"),
     PyList(<<PyStr("ffmpeg")>>), PyList(<<PyStr("ffmpeg"), PyInt("1")>>),
     PyDict(<<S("ams", PyInt("1"))>>),
     PyDict(<<S("ams", PyInt("1")), S("sjc", PyInt("2"))>>),
     PyDict(<<S("xyz", PyInt("1"))>>),
     PyDict(<<S("", PyInt("1"))>>),
     PyDict(<<PyItem(PyInt("5"), PyInt("1"))>>),
     PyDict(<<S("ams", PyStr("two"))>>),
     PyDict(<<S("ams", PyBool("True"))>>)}

DispatchKeys == {"", "regions", "envfile", "packages"}

\* _validate_dispatch returns nothing or raises
DispatchResult(e) == IF Raised(e) THEN Throw(e) ELSE Return(PyNone)

Dispatch ==
    /\ last.op = "idle"
    /\ \E v \in DispatchValues, n \in Annotations, k \in DispatchKeys :
         last' = Call("_validate_dispatch", PyNone,
                      PyDict(<<S("value", v), S("_type", PyStr(n)), S("key", PyStr(k))>>),
                      PyNone, DispatchResult(ValidateDispatch(v, Annotation(n), k)))
    /\ UNCHANGED <<yamlFile, tomlFile, pyyaml>>
    /\ UNCHANGED depVars

SpecValidate == InitConfig /\ [][Dispatch]_vars

\* ================================================== deploy (v2/cli.py)

\* How many of deploy's keyword arguments and of the config file's fields a
\* run sets away from their defaults.
MaxPicks == 3

\* Keyword arguments a caller may pass to deploy (interactive apart).
ArgPairs ==
    <<S("app_name", PyStr("cli-app")),
      S("app_id", PyStr("a-cli")),
      S("project", PyStr("p-cli")),
      S("project_name", PyStr("proj")),
      S("description", PyStr("cli-desc")),
      S("regions", PyList(<<PyStr("ams")>>)),
      S("vmtype", PyStr("c1m1")),
      S("hostname", PyStr("cli-host")),
      S("envfile", PyStr("cli.env")),
      S("envs", PyList(<<PyStr("K=V")>>))>>

\* Fields the config file may set.
FilePairs ==
    <<S("name", PyStr("file-app")), S("name", PyStr("default")),
      S("appid", PyStr("a-file")),
      S("project", PyStr("p-file")),
      S("description", PyStr("file-desc")),
      S("regions", PyDict(<<PyItem(PyStr("sjc"), PyInt("1"))>>)),
      S("vmtype", PyStr("c2m4")),
      S("hostname", PyStr("file-host")),
      S("envfile", PyStr("file.env")),
      S("packages", PyList(<<PyStr("curl")>>)),
      S("strategy", PyStr("rolling"))>>

DeployArgs(n) ==
    {PyDict(<<S("interactive", PyBool(b))>> \o sec) :
        b \in {"True", "False"}, sec \in Sections(ArgPairs, n)}

\* hosting.read_config(config_path, env=env): None, or the Config of the file
ReadConfigs(n) ==
    {ConfigFromData(YamlPath, PyDict(sec)).ret : sec \in Sections(FilePairs, n)}
        \cup (IF n = 0 THEN {PyNone} ELSE {})

\* hosting.get_selected_project()
SelectedProjects == {PyNone, PyStr("p-sel")}

\* importlib.metadata.version("reflex")
InstalledVersions == {"0.7.5", "0.7.6", "0.7.7"}

\* packaging.version.parse on the versions above
ParseVersion(v) ==
    CASE v = "0.7.5" -> <<0, 7, 5>>
      [] v = "0.7.6" -> <<0, 7, 6>>
      [] v = "0.7.7" -> <<0, 7, 7>>

\* Version.__le__: release tuples compare lexicographically
VersionLE(a, b) ==
    \/ a[1] < b[1]
    \/ a[1] = b[1] /\ a[2] < b[2]
    \/ a[1] = b[1] /\ a[2] = b[2] /\ a[3] <= b[3]

\* A keyword argument of the running deploy; interactive defaults to True.
A(k) == DictGet(arg, PyStr(k), PyNone)
Interactive == Truthy(DictGet(arg, PyStr("interactive"), PyBool("True")))

\* deploy's parameters and locals on entry
Locals(a) ==
    [app_name |-> DictGet(a, PyStr("app_name"), PyNone),
     description |-> DictGet(a, PyStr("description"), PyNone),
     regions |-> DictGet(a, PyStr("regions"), PyNone),
     vmtype |-> DictGet(a, PyStr("vmtype"), PyNone),
     hostname |-> DictGet(a, PyStr("hostname"), PyNone),
     envfile |-> DictGet(a, PyStr("envfile"), PyNone),
     envs |-> DictGet(a, PyStr("envs"), PyNone),
     project_name |-> DictGet(a, PyStr("project_name"), PyNone),
     app_id |-> DictGet(a, PyStr("app_id"), PyNone),
     project_id |-> PyNone, packages |-> PyNone, strategy |-> PyNone,
     include_db |-> PyBool("False"), app |-> PyNone,
     server_url |-> PyNone, host_url |-> PyNone, processed_envs |-> PyNone,
     rx_version |-> PyNone, result |-> PyNone]

\* One call deploy made: keyword arguments, returned value, raised exception.
Entry(fn, args, ret, exc) == [fn |-> fn, args |-> PyDict(args), ret |-> ret, exc |-> exc]
Called(lg, fn, args, ret) == Append(lg, Entry(fn, args, ret, "none"))
Failed(lg, fn, args, exc) == Append(lg, Entry(fn, args, PyNone, exc))
Console(lg, level, text) ==
    Append(lg, Entry("console." \o level, <<S("msg", PyStr(text))>>, PyNone, "none"))

\* The flow between two steps: locals, log, and the exit raised if any.
St(l, lg) == [l |-> l, lg |-> lg, exit |-> "none"]
Stop(st, code) == [st EXCEPT !.exit = code]

Goto(next, l, lg) == pc' = next /\ loc' = l /\ log' = lg /\ exitc' = exitc
End(code, l, lg) == pc' = "done" /\ loc' = l /\ log' = lg /\ exitc' = code
Apply(st, next) ==
    IF st.exit = "none" THEN Goto(next, st.l, st.lg) ELSE End(st.exit, st.l, st.lg)

DeployFrame == UNCHANGED <<yamlFile, tomlFile, pyyaml, last, arg, cfgFile, selected>>

\* `x or y`, and `if not x: x = y`
Or(x, y) == IF Truthy(x) THEN x ELSE y

\* dataclasses.asdict(config_from_file)
AsDict(c) == PyDict([i \in 1..Len(FieldSeq) |-> PyItem(PyStr(FieldSeq[i]), c.e[i])])

\* the merge of the config file into the arguments
MergeConfig(l, config) ==
    [l EXCEPT
       !.regions = Or(@, DictGet(config, PyStr("regions"), PyNone)),
       !.vmtype = Or(@, DictGet(config, PyStr("vmtype"), PyNone)),
       !.hostname = Or(@, DictGet(config, PyStr("hostname"), PyNone)),
       !.envfile = Or(@, DictGet(config, PyStr("envfile"), PyNone)),
       !.project_id = Or(@, DictGet(config, PyStr("project"), PyNone)),
       !.project_name = Or(@, DictGet(config, PyStr("projectname"), PyNone)),
       !.app_id = Or(@, DictGet(config, PyStr("appid"), PyNone)),
       !.packages = Or(@, DictGet(config, PyStr("packages"), PyNone)),
       !.include_db = Or(@, DictGet(config, PyStr("include_db"), PyBool("False"))),
       !.strategy = Or(@, DictGet(config, PyStr("strategy"), PyNone)),
       !.app_name = DictGet(config, PyStr("name"), @),
       !.description = Or(@, DictGet(config, PyStr("description"), PyNone))]

\* the checks inside the merge that end the run
MergeChecks(st) ==
    IF st.l.app_id.t \notin {"str", "NoneType"}
    THEN Stop([st EXCEPT !.lg = Console(@, "error", "app_id must be a string or None. Please check your config file.")],
              "SystemExit(1)")
    ELSE IF st.l.app_name.t \notin {"str", "NoneType"}
    THEN Stop([st EXCEPT !.lg = Console(@, "error", "app_name must be a string or None. Please check your config file.")],
              "SystemExit(1)")
    ELSE IF st.l.app_name = PyStr("default")
    THEN Stop([st EXCEPT !.lg = Console(@, "error", "Please set real config values in cloud.yml or pyproject.toml")],
              "SystemExit(1)")
    ELSE st

\* project_id = project, then the merge when read_config returned a Config
ReadConfigStep(l, lg) ==
    IF Truthy(cfgFile)
    THEN MergeChecks(St(MergeConfig(l, AsDict(cfgFile)), lg))
    ELSE St(l, lg)

\* resolve the project id from the project name
ProjectByName(st, found) ==
    IF Truthy(st.l.project_name) /\ ~Truthy(st.l.project_id)
    THEN [st EXCEPT
            !.l.project_id = IF Truthy(found) THEN DictGet(found, PyStr("id"), PyNone) ELSE PyNone,
            !.lg = Called(@, "search_project", <<S("project_name", st.l.project_name)>>, found)]
    ELSE st

\* check that the project exists, or fall back to the selected project
CheckProject(st, exists) ==
    IF Truthy(st.l.project_id)
    THEN IF exists
         THEN [st EXCEPT !.lg = Called(@, "get_project", <<S("project_id", st.l.project_id)>>, PyNone)]
         ELSE Stop([st EXCEPT !.lg = Console(Failed(@, "get_project", <<S("project_id", st.l.project_id)>>,
                                                    "HTTPStatusError"),
                                             "error", "detail")],
                   "Exit(1)")
    ELSE [st EXCEPT !.l.project_id = selected,
                    !.lg = Called(@, "get_selected_project", <<>>, selected)]

\* envs = envs or [], then the app name or id must be there
RequireApp(st) ==
    IF st.exit # "none" THEN st
    ELSE IF ~Truthy(st.l.app_name) /\ ~Truthy(st.l.app_id)
    THEN Stop([st EXCEPT !.l.envs = Or(@, PyList(<<>>)),
                         !.lg = Console(@, "error", "Please provide a valid app name or ID for the deployed instance.")],
              "Exit(1)")
    ELSE [st EXCEPT !.l.envs = Or(@, PyList(<<>>))]

\* A lookup that is always scoped to the resolved project.
SearchScope_Resolved(l) == l.project_id

\* the project search_app is scoped to
SearchScope(l) ==
    IF ~Interactive /\ ~Truthy(A("project")) /\ ~Truthy(l.project_id) THEN selected
    ELSE IF Interactive /\ ~Truthy(A("project")) THEN PyNone
    ELSE l.project_id

ByName(l) == Truthy(l.app_name) /\ ~Truthy(l.app_id)

\* An app as the provider describes it.
AppRecord(id, name, project) ==
    PyDict(<<S("id", id), S("name", name), S("project_id", project)>>)

\* What search_app / get_app may return: nothing, or an app of the name in
\* the scope searched (in any project when unscoped), or the app of the id.
LookupResults(l) ==
    {PyNone} \cup
    (IF ByName(l)
     THEN {AppRecord(PyStr("a-found"), l.app_name, p) :
             p \in (IF Truthy(SearchScope(l)) THEN {SearchScope(l)}
                    ELSE {PyStr("p-sel"), PyStr("p-other")})}
     ELSE {AppRecord(l.app_id, PyStr("remote-app"), p) :
             p \in {PyStr("p-other")} \cup (IF Truthy(l.project_id) THEN {l.project_id} ELSE {})})

LookupCall(l) == IF ByName(l) THEN "search_app" ELSE "get_app"
LookupArgs(l) ==
    IF ByName(l)
    THEN <<S("app_name", l.app_name), S("project_id", SearchScope(l))>>
    ELSE <<S("app_id", Or(l.app_id, PyStr("")))>>

\* A deploy that never asks about the project of the app it found.
AfterLookup_NoConfirm(app) == IF Truthy(app) THEN "get_hostname" ELSE "create_app"

\* where the flow goes once the lookup has returned
AfterLookup(app) ==
    IF Truthy(app)
    THEN IF Interactive /\ ~Truthy(A("project")) /\ ~Truthy(loc.app_id)
         THEN "confirm_project" ELSE "get_hostname"
    ELSE "create_app"

\* console.ask(..., choices=["y", "n"])
Answers == {"y", "n"}
Ask(lg, prompt, subject, ans) ==
    Append(lg, Entry("console.ask", <<S("prompt", PyStr(prompt)), S("subject", subject)>>, PyStr(ans), "none"))

\* target_project.get("name", "Unknown"), "Unknown" when get_project raises
TargetName(pid, nameOk) == IF nameOk THEN PyStr("name of " \o pid.s) ELSE PyStr("Unknown")

\* the name shown when nothing is selected and no project id is known
DefaultName(dflt, nameOk) ==
    IF Truthy(dflt) THEN TargetName(dflt, nameOk) ELSE PyStr("Default Project")

\* A deploy that treats a declined app creation as a cancellation.
AskCreate_Cancel(st, ans) ==
    IF ans = "y"
    THEN [st EXCEPT !.lg = Ask(@, "create a new app", Or(st.l.app_name, st.l.app_id), ans)]
    ELSE Stop([st EXCEPT !.lg = Console(Ask(@, "create a new app", Or(st.l.app_name, st.l.app_id), ans),
                                        "info", "Deployment cancelled.")],
              "Exit(0)")

\* "No app with ... found. Do you want to create a new app to deploy?"
AskCreate(st, ans) ==
    IF ans = "y"
    THEN [st EXCEPT !.lg = Ask(@, "create a new app", Or(st.l.app_name, st.l.app_id), ans)]
    ELSE Stop([st EXCEPT !.lg = Console(Ask(@, "create a new app", Or(st.l.app_name, st.l.app_id), ans),
                                        "error", "Please create an app to deploy.")],
              "Exit(1)")

AskTarget(st, name, ans) ==
    IF ans = "y"
    THEN [st EXCEPT !.l.project_name = name, !.lg = Ask(@, "create and deploy in project", name, ans)]
    ELSE Stop([st EXCEPT !.l.project_name = name,
                         !.lg = Console(Ask(@, "create and deploy in project", name, ans),
                                        "info", "Deployment cancelled.")],
              "Exit(0)")

\* confirmation for creating the app outside the selected project
ConfirmTarget(st, ans, nameOk, dflt) ==
    IF st.exit # "none" \/ Truthy(A("project")) THEN st
    ELSE IF ~Truthy(selected)
    THEN AskTarget(st, IF Truthy(st.l.project_id) THEN TargetName(st.l.project_id, nameOk)
                       ELSE DefaultName(dflt, nameOk), ans)
    ELSE IF Truthy(st.l.project_id) /\ st.l.project_id # selected
    THEN AskTarget(st, TargetName(st.l.project_id, nameOk), ans)
    ELSE st

\* "App Description (Enter to skip)"
AskDescription(st, typed) ==
    IF st.exit # "none" \/ st.l.description # PyNone THEN st
    ELSE [st EXCEPT !.l.description = typed,
                    !.lg = Ask(@, "App Description (Enter to skip)", PyNone, typed.s)]

\* hosting.create_app: the new app lives in the project asked for, or in the
\* account's default project when none is given
CreatedApp(name, project_id) ==
    AppRecord(PyStr("a-new"), name, Or(project_id, PyStr("p-default")))

DoCreate(st, description) ==
    IF st.exit # "none" THEN st
    ELSE [st EXCEPT
            !.l.app = CreatedApp(Or(st.l.app_name, PyStr("")), st.l.project_id),
            !.lg = Console(Called(@, "create_app",
                                  <<S("app_name", Or(st.l.app_name, PyStr(""))),
                                    S("description", description),
                                    S("project_id", st.l.project_id)>>,
                                  CreatedApp(Or(st.l.app_name, PyStr("")), st.l.project_id)),
                           "info", "created app.")]

CreateAsked(st) == IF st.exit # "none" THEN st ELSE DoCreate(st, st.l.description)

\* hosting.get_hostname: the backend and frontend URLs, or an error
HostUrl(h) == PyStr("https://" \o h \o ".reflex.run")
Urls(l) ==
    PyDict(<<S("server", PyStr("https://api.reflex.run")),
             S("hostname", HostUrl(IF Truthy(l.hostname) THEN l.hostname.s ELSE "generated"))>>)
UrlsError == PyDict(<<S("error", PyStr("hostname taken"))>>)

\* dependency.extract_domain: urlparse(url).netloc
ExtractDomain(u) ==
    PyStr(CHOOSE d \in {h \o ".reflex.run" : h \in {"cli-host", "file-host", "generated"}} :
            PyStr("https://" \o d) = u)

HostnameArgs(l) ==
    <<S("app_id", DictGet(l.app, PyStr("id"), PyNone)),
      S("app_name", DictGet(l.app, PyStr("name"), PyNone)),
      S("hostname", l.hostname)>>

\* hosting.process_envs(envs), dotenv_values(envfile)
ProcessEnvs(envs) == PyDict(<<S("envs", envs)>>)
DotenvValues(envfile) == PyDict(<<S("envfile", envfile)>>)

\* get_hostname, then process_envs, then the app name must be there
Hostname(st, urls) ==
    IF DictHas(urls, PyStr("error"))
    THEN Stop([st EXCEPT !.lg = Console(Called(@, "get_hostname", HostnameArgs(st.l), urls),
                                        "error", "hostname taken")],
              "Exit(1)")
    ELSE [st EXCEPT
            !.l.server_url = DictGet(urls, PyStr("server"), PyNone),
            !.l.host_url = DictGet(urls, PyStr("hostname"), PyNone),
            !.l.processed_envs = IF Truthy(st.l.envs) THEN ProcessEnvs(st.l.envs) ELSE PyNone,
            !.lg = IF Truthy(st.l.envs)
                   THEN Called(Called(@, "get_hostname", HostnameArgs(st.l), urls),
                               "process_envs", <<S("envs", st.l.envs)>>, ProcessEnvs(st.l.envs))
                   ELSE Called(@, "get_hostname", HostnameArgs(st.l), urls)]

RequireName(st) ==
    IF st.exit # "none" \/ Truthy(st.l.app_name) THEN st
    ELSE Stop([st EXCEPT !.lg = Console(@, "error", "Please set an app name.")], "Exit(1)")

\* A deploy that keeps the project id it resolved, None included.
AppProject_Keep(st) == st

\* project_id = project_id or app.get("project_id")
AppProject(st) ==
    [st EXCEPT !.l.project_id = Or(@, DictGet(st.l.app, PyStr("project_id"), PyNone))]

ValidateArgs(l) ==
    <<S("app_name", l.app_name), S("project_id", l.project_id), S("regions", l.regions),
      S("vmtype", l.vmtype), S("hostname", l.hostname)>>

Validated(st, message) ==
    IF message = "success"
    THEN [st EXCEPT !.lg = Called(@, "validate_deployment_args", ValidateArgs(st.l), PyStr(message))]
    ELSE Stop([st EXCEPT !.lg = Console(Called(@, "validate_deployment_args", ValidateArgs(st.l), PyStr(message)),
                                        "error", message)],
              "Exit(1)")

\* the env file replaces the processed envs when python-dotenv is installed
LoadEnvfile(st, dotenv) ==
    IF ~Truthy(st.l.envfile) THEN st
    ELSE IF dotenv
    THEN [st EXCEPT !.l.processed_envs = DotenvValues(st.l.envfile),
                    !.lg = Called(@, "dotenv_values", <<S("envfile", st.l.envfile)>>,
                                  DotenvValues(st.l.envfile))]
    ELSE [st EXCEPT !.lg = Console(@, "error", "The python-dotenv package is required to load environment variables from a file.")]

\* tempfile.TemporaryDirectory().name
TempPath == PyStr("/tmp/tmpdeploy")

\* An export call with the two flags in each other's position.
ExportArgs_Swapped(l, frontend, backend) ==
    IF VersionLE(ParseVersion(l.rx_version.s), ParseVersion("0.7.6"))
    THEN <<S("args", PyList(<<TempPath, l.server_url, l.host_url,
                              PyBool(backend), PyBool(frontend), PyBool("True")>>))>>
    ELSE <<S("args", PyList(<<TempPath, l.server_url, l.host_url,
                              PyBool(backend), PyBool(frontend), l.include_db, PyBool("True")>>))>>

\* the positional arguments of export_fn for the installed version
ExportArgs(l, frontend, backend) ==
    IF VersionLE(ParseVersion(l.rx_version.s), ParseVersion("0.7.6"))
    THEN <<S("args", PyList(<<TempPath, l.server_url, l.host_url,
                              PyBool(frontend), PyBool(backend), PyBool("True")>>))>>
    ELSE <<S("args", PyList(<<TempPath, l.server_url, l.host_url,
                              PyBool(frontend), PyBool(backend), l.include_db, PyBool("True")>>))>>

\* An export handler that leaves the directory behind.
Rmtree_Skip(d) == d

\* if temporary_dir_path.exists(): shutil.rmtree(temporary_dir_path)
Rmtree(d) == IF d = "exists" THEN "deleted" ELSE d

\* TemporaryDirectory's finalizer, run when the last reference is dropped
Finalize(d) == IF d = "exists" THEN "deleted" ELSE d

\* an export that raised: the error is reported and the run ends with Exit(1)
ExportFailed(lg, args, exc, text) ==
    Console(Failed(lg, "export_fn", args, exc), "error", text)

\* the keyword arguments of hosting.create_deployment
DeploymentArgs(l) ==
    <<S("app_name", l.app_name), S("project_id", l.project_id), S("regions", l.regions),
      S("zip_dir", TempPath),
      S("hostname", IF Truthy(l.hostname) THEN ExtractDomain(l.host_url) ELSE PyNone),
      S("vmtype", l.vmtype), S("secrets", l.processed_envs),
      S("packages", l.packages), S("strategy", l.strategy)>>

\* what create_deployment returns: a deployment id, or text with the marker
SubmitResults == {PyStr("dep-1"), PyStr("deployment failed")}
\* "failed" in result
HasFailedMarker(r) == r = PyStr("deployment failed")

\* ---- the steps of deploy

Authenticate ==
    /\ pc = "start"
    /\ \/ Goto("read_config", loc,
               Called(log, "get_authenticated_client", <<S("interactive", A("interactive"))>>, PyStr("client")))
       \/ End("NotAuthenticatedError", loc,
              Failed(log, "get_authenticated_client", <<S("interactive", A("interactive"))>>,
                     "NotAuthenticatedError"))
    /\ UNCHANGED tmpdir
    /\ DeployFrame

ReadConfig ==
    /\ pc = "read_config"
    /\ Apply(ReadConfigStep([loc EXCEPT !.project_id = A("project")],
                            Called(log, "read_config", <<>>, cfgFile)),
             "resolve_project")
    /\ UNCHANGED tmpdir
    /\ DeployFrame

ResolveProject ==
    /\ pc = "resolve_project"
    /\ \E found \in {PyNone, PyDict(<<S("id", PyStr("p-name"))>>)}, exists \in BOOLEAN :
         Apply(RequireApp(CheckProject(ProjectByName(St(loc, log), found), exists)), "find_app")
    /\ UNCHANGED tmpdir
    /\ DeployFrame

FindApp ==
    /\ pc = "find_app"
    /\ \/ \E app \in LookupResults(loc) :
            Goto(AfterLookup(app), [loc EXCEPT !.app = app],
                 Called(log, LookupCall(loc), LookupArgs(loc), app))
       \/ End("Exit(1)", loc,
              Console(Failed(log, LookupCall(loc), LookupArgs(loc), "Exception"),
                      "error", "Deployment failed"))
    /\ UNCHANGED tmpdir
    /\ DeployFrame

ConfirmProject ==
    /\ pc = "confirm_project"
    /\ IF /\ Truthy(DictGet(loc.app, PyStr("project_id"), PyNone))
          /\ (~Truthy(selected) \/ DictGet(loc.app, PyStr("project_id"), PyNone) # selected)
       THEN \/ \E ans \in Answers :
                 Apply(IF ans = "y"
                       THEN St([loc EXCEPT !.project_id = DictGet(loc.app, PyStr("project_id"), PyNone)],
                               Ask(Called(log, "get_project",
                                          <<S("project_id", DictGet(loc.app, PyStr("project_id"), PyNone))>>, PyNone),
                                   "deploy to app in project", DictGet(loc.app, PyStr("project_id"), PyNone), ans))
                       ELSE Stop(St(loc, Console(Ask(Called(log, "get_project",
                                                            <<S("project_id", DictGet(loc.app, PyStr("project_id"), PyNone))>>,
                                                            PyNone),
                                                     "deploy to app in project",
                                                     DictGet(loc.app, PyStr("project_id"), PyNone), ans),
                                                 "info", "Deployment cancelled.")),
                                 "Exit(0)"),
                       "get_hostname")
            \/ End("HTTPStatusError", loc,
                   Failed(log, "get_project",
                          <<S("project_id", DictGet(loc.app, PyStr("project_id"), PyNone))>>, "HTTPStatusError"))
       ELSE Goto("get_hostname", loc, log)
    /\ UNCHANGED tmpdir
    /\ DeployFrame

CreateApp ==
    /\ pc = "create_app"
    /\ IF Interactive
       THEN \E ans1 \in Answers, ans2 \in Answers, nameOk \in BOOLEAN,
               dflt \in {PyNone, PyStr("p-default")}, typed \in {PyStr(""), PyStr("typed-desc")} :
              Apply(CreateAsked(AskDescription(ConfirmTarget(AskCreate(St(loc, log), ans1),
                                                             ans2, nameOk, dflt),
                                               typed)),
                    "get_hostname")
       ELSE Apply(DoCreate(St(loc, log), Or(loc.description, PyStr(""))), "get_hostname")
    /\ UNCHANGED tmpdir
    /\ DeployFrame

GetHostname ==
    /\ pc = "get_hostname"
    /\ \E urls \in {Urls(loc), UrlsError} :
         Apply(RequireName(Hostname(St(loc, log), urls)), "validate")
    /\ UNCHANGED tmpdir
    /\ DeployFrame

Validate ==
    /\ pc = "validate"
    /\ \E message \in {"success", "invalid regions"} :
         Apply(Validated(AppProject(St(loc, log)), message), "prepare_export")
    /\ UNCHANGED tmpdir
    /\ DeployFrame

PrepareExport ==
    /\ pc = "prepare_export"
    /\ \E dotenv \in BOOLEAN, v \in InstalledVersions :
         Apply([LoadEnvfile(St(loc, log), dotenv) EXCEPT !.l.rx_version = PyStr(v)], "export_backend")
    /\ tmpdir' = "exists"
    /\ DeployFrame

ExportBackend ==
    /\ pc = "export_backend"
    /\ \/ /\ Goto("export_frontend", loc,
                  Called(log, "export_fn", ExportArgs(loc, "False", "True"), PyNone))
          /\ UNCHANGED tmpdir
       \/ /\ End("Exit(1)", loc,
                 ExportFailed(log, ExportArgs(loc, "False", "True"), "Exception", "Unable to export"))
          /\ tmpdir' = Rmtree(tmpdir)
    /\ DeployFrame

ExportFrontend ==
    /\ pc = "export_frontend"
    /\ \/ /\ Goto("create_deployment", loc,
                  Called(log, "export_fn", ExportArgs(loc, "True", "False"), PyNone))
          /\ UNCHANGED tmpdir
       \/ /\ End("Exit(1)", loc,
                 ExportFailed(log, ExportArgs(loc, "True", "False"), "ImportError",
                              "Encountered ImportError, did you install all the dependencies?"))
          /\ tmpdir' = Rmtree(tmpdir)
       \/ /\ End("Exit(1)", loc,
                 ExportFailed(log, ExportArgs(loc, "True", "False"), "Exception", "Unable to export"))
          /\ tmpdir' = Rmtree(tmpdir)
    /\ DeployFrame

CreateDeployment ==
    /\ pc = "create_deployment"
    /\ \E result \in SubmitResults :
         IF HasFailedMarker(result)
         THEN End("Exit(1)", [loc EXCEPT !.result = result],
                  Console(Called(log, "create_deployment", DeploymentArgs(loc), result),
                          "error", result.s))
         ELSE Goto("watch", [loc EXCEPT !.result = result],
                   Called(log, "create_deployment", DeploymentArgs(loc), result))
    /\ UNCHANGED tmpdir
    /\ DeployFrame

\* the dashboard URL and the follow-along hint
Progress(lg, l) ==
    Console(Console(lg, "print",
                    "deployment progress: /project/" \o DictGet(l.app, PyStr("project_id"), PyNone).s
                        \o "/app/" \o DictGet(l.app, PyStr("id"), PyNone).s \o "/"),
            "print", "reflex cloud apps status " \o l.result.s \o " --watch")

\* what watch_deployment_status returns: False for a failed deployment,
\* True or nothing otherwise
Statuses == {PyBool("True"), PyBool("False"), PyNone}

\* A deploy that fails on every falsy status.
StatusFailed_Falsy(status) == ~Truthy(status)

\* if status is False
StatusFailed(status) == status = PyBool("False")

\* Returning drops the last reference to the TemporaryDirectory, whose
\* finalizer removes the directory; a raised Exit keeps the frame alive.
WatchStatus ==
    /\ pc = "watch"
    /\ \E status \in Statuses :
         IF StatusFailed(status)
         THEN /\ End("Exit(1)", loc,
                     Called(Progress(log, loc), "watch_deployment_status",
                            <<S("deployment_id", loc.result)>>, status))
              /\ UNCHANGED tmpdir
         ELSE /\ End("return", loc,
                     Called(Progress(log, loc), "watch_deployment_status",
                            <<S("deployment_id", loc.result)>>, status))
              /\ tmpdir' = Finalize(tmpdir)
    /\ DeployFrame

InitDeploy ==
    /\ yamlFile = Absent
    /\ tomlFile = Absent
    /\ pyyaml = TRUE
    /\ last = Idle
    /\ \E na \in 0..MaxPicks : \E nf \in 0..(MaxPicks - na) :
         /\ arg \in DeployArgs(na)
         /\ cfgFile \in ReadConfigs(nf)
    /\ selected \in SelectedProjects
    /\ pc = "start"
    /\ loc = Locals(arg)
    /\ tmpdir = "none"
    /\ log = <<>>
    /\ exitc = "running"

NextDeploy ==
    \/ Authenticate \/ ReadConfig \/ ResolveProject \/ FindApp
    \/ ConfirmProject \/ CreateApp \/ GetHostname \/ Validate
    \/ PrepareExport \/ ExportBackend \/ ExportFrontend
    \/ CreateDeployment \/ WatchStatus

SpecDeploy == InitDeploy /\ [][NextDeploy]_vars

\* ============================ the secrets and project commands
\* (v2/secrets.py, v2/project.py)

\* What a call into hosting does: it returns a value or raises.
Outcome(v) == [ret |-> v, exc |-> "none"]
Raises(e) == [ret |-> PyNone, exc |-> e]

\* get_authenticated_client returns a client or raises NotAuthenticatedError
AuthOutcomes == {Outcome(PyStr("client")), Raises("NotAuthenticatedError")}

\* a provider call returns its result or a text with the 'failed' marker,
\* or raises
FailedText == PyStr("request failed")
ProviderOutcomes(result) ==
    {Outcome(result), Outcome(PyList(<<>>)), Outcome(FailedText),
     Raises("NotAuthenticatedError"), Raises("HTTPStatusError")}

\* "failed" in result
MarkedFailed(out) == out.exc = "none" /\ out.ret = FailedText

ReauthMsg == "You are not authenticated. Run reflex login to authenticate."

\* the parameters and locals of a command
CmdLocals(cmd) ==
    [command |-> cmd, app_id |-> A("app_id"), project_id |-> A("project_id")]

\* One call into hosting inside the flow: an exception leaves the flow.
HostingCall(st, fn, args, out) ==
    IF st.exit # "none" THEN st
    ELSE IF out.exc = "none" THEN [st EXCEPT !.lg = Called(@, fn, args, out.ret)]
    ELSE Stop([st EXCEPT !.lg = Failed(@, fn, args, out.exc)], out.exc)

\* console.error(text); raise click.exceptions.Exit(1)
ErrorExit(st, text) == Stop([st EXCEPT !.lg = Console(@, "error", text)], "Exit(1)")
FailIf(st, cond, text) == IF st.exit # "none" \/ ~cond THEN st ELSE ErrorExit(st, text)
Say(st, level, text) ==
    IF st.exit # "none" THEN st ELSE [st EXCEPT !.lg = Console(@, level, text)]

\* except NotAuthenticatedError as err: console.error(...); raise Exit(1)
CatchNotAuth(st) ==
    IF st.exit = "NotAuthenticatedError"
    THEN [st EXCEPT !.lg = Console(@, "error", ReauthMsg), !.exit = "Exit(1)"]
    ELSE st

\* except NotAuthenticatedError: console.error(...); click.exceptions.Exit(1)
\* the Exit is built and dropped, and the command goes on to its end
CatchNotAuthNoRaise(st) ==
    IF st.exit = "NotAuthenticatedError"
    THEN [st EXCEPT !.lg = Console(@, "error", ReauthMsg), !.exit = "none"]
    ELSE st

\* the command has ended: it returned, or an exception left it
Finish(st) ==
    /\ pc' = "done"
    /\ loc' = st.l
    /\ log' = st.lg
    /\ exitc' = IF st.exit = "none" THEN "return" ELSE st.exit
    /\ UNCHANGED tmpdir
    /\ DeployFrame

Authenticated(st, auth) ==
    HostingCall(st, "get_authenticated_client", <<S("interactive", A("interactive"))>>, auth)

\* if not app_id: take it from the config file; then it must be there
ConfigAppId(st) ==
    IF st.exit # "none" \/ Truthy(st.l.app_id) THEN st
    ELSE IF ~Truthy(cfgFile)
    THEN [st EXCEPT !.lg = Called(@, "read_config", <<>>, cfgFile)]
    ELSE IF Attr(cfgFile, "appid").t \notin {"str", "NoneType"}
    THEN ErrorExit([st EXCEPT !.l.app_id = Attr(cfgFile, "appid"),
                              !.lg = Called(@, "read_config", <<>>, cfgFile)],
                   "app_id must be a string or None. Please check your config file.")
    ELSE [st EXCEPT !.l.app_id = Attr(cfgFile, "appid"),
                    !.lg = Called(@, "read_config", <<>>, cfgFile)]

RequireAppId(st) == FailIf(st, ~Truthy(st.l.app_id), "No valid app_id provided.")

\* headers = list(rows[0].keys()): the first row must be a dict
HasKeys(rows) == rows.t = "list" /\ rows.e[1].t = "dict"

\* print the rows as JSON, or as a table with the first row's keys as
\* headers, or as text when there are none
Shown(st, rows) ==
    IF st.exit # "none" THEN st
    ELSE IF Truthy(A("as_json")) THEN Say(st, "print", "json")
    ELSE IF ~Truthy(rows) THEN Say(st, "print", "text")
    ELSE IF HasKeys(rows) THEN Say(st, "print_table", "table")
    ELSE Stop(st, "AttributeError")

\* ---- secrets list

SecretKeys == PyDict(<<S("K", PyStr("V"))>>)

GetSecretsCall(st, out) ==
    FailIf(HostingCall(st, "get_secrets", <<S("app_id", st.l.app_id)>>, out),
           MarkedFailed(out), FailedText.s)

\* print the secrets as they are, or their keys as a table, or as text
ShownKeys(st, secrets) ==
    IF Truthy(A("as_json")) THEN Say(st, "print", "json")
    ELSE IF Truthy(secrets) THEN Say(st, "print_table", "Keys")
    ELSE Say(st, "print", "text")

GetSecrets(auth, out) ==
    CatchNotAuth(ShownKeys(GetSecretsCall(RequireAppId(ConfigAppId(
        Authenticated(St(CmdLocals("secrets list"), log), auth))), out), out.ret))

SecretsList ==
    /\ pc = "command"
    /\ \E auth \in AuthOutcomes, out \in ProviderOutcomes(SecretKeys) : Finish(GetSecrets(auth, out))

\* ---- secrets update

\* if envfile is None and not envs
RequireEnv(st) ==
    FailIf(st, A("envfile") = PyNone /\ ~Truthy(A("envs")), "--envfile or --env must be provided")

\* if envfile and envs: console.warn
WarnBoth(st) ==
    IF Truthy(A("envfile")) /\ Truthy(A("envs"))
    THEN Say(st, "warn", "--envfile is set; ignoring --env") ELSE st

\* the secrets to send: the env file's pairs (nothing when python-dotenv is
\* missing), or else the processed envs list
SecretsToSend(dotenv) ==
    IF Truthy(A("envfile"))
    THEN IF dotenv THEN DotenvValues(A("envfile")) ELSE PyDict(<<>>)
    ELSE ProcessEnvs(A("envs"))

ReadSecrets(st, dotenv) ==
    IF st.exit # "none" THEN st
    ELSE IF ~Truthy(A("envfile"))
    THEN [st EXCEPT !.lg = Called(@, "process_envs", <<S("envs", A("envs"))>>, ProcessEnvs(A("envs")))]
    ELSE IF dotenv
    THEN [st EXCEPT !.lg = Called(@, "dotenv_values", <<S("envfile", A("envfile"))>>,
                                  DotenvValues(A("envfile")))]
    ELSE Say(st, "error", "The python-dotenv package is required to load environment variables from a file.")

UpdateSecretsCall(st, dotenv, out) ==
    HostingCall(st, "update_secrets",
                <<S("app_id", st.l.app_id), S("secrets", SecretsToSend(dotenv)),
                  S("reboot", A("reboot"))>>, out)

UpdateSecrets(auth, dotenv, out) ==
    UpdateSecretsCall(ReadSecrets(WarnBoth(RequireEnv(RequireAppId(ConfigAppId(
        Authenticated(St(CmdLocals("secrets update"), log), auth))))), dotenv), dotenv, out)

SecretsUpdate ==
    /\ pc = "command"
    /\ \E auth \in AuthOutcomes, dotenv \in BOOLEAN, out \in ProviderOutcomes(PyNone) :
         Finish(UpdateSecrets(auth, dotenv, out))

\* ---- secrets delete

DeleteSecretCall(st, out) ==
    Say(FailIf(HostingCall(st, "delete_secret",
                           <<S("app_id", st.l.app_id), S("key", A("key")), S("reboot", A("reboot"))>>, out),
               MarkedFailed(out), FailedText.s),
        "success", "Successfully deleted secret.")

DeleteSecret(auth, out) ==
    CatchNotAuth(DeleteSecretCall(RequireAppId(ConfigAppId(
        Authenticated(St(CmdLocals("secrets delete"), log), auth))), out))

SecretsDelete ==
    /\ pc = "command"
    /\ \E auth \in AuthOutcomes, out \in ProviderOutcomes(PyStr("deleted")) :
         Finish(DeleteSecret(auth, out))

\* ---- project create

ProjectRecord == PyDict(<<S("id", PyStr("p-new")), S("name", PyStr("proj"))>>)

CreateProject(auth, out) ==
    Shown(HostingCall(Authenticated(St(CmdLocals("project create"), log), auth),
                      "create_project", <<S("name", A("name"))>>, out),
          IF Truthy(out.ret) THEN PyList(<<out.ret>>) ELSE out.ret)

ProjectCreate ==
    /\ pc = "command"
    /\ \E auth \in AuthOutcomes, out \in ProviderOutcomes(ProjectRecord) :
         Finish(CreateProject(auth, out))

\* ---- project invite

InviteUserToProject(auth, out) ==
    Say(FailIf(CatchNotAuth(HostingCall(Authenticated(St(CmdLocals("project invite"), log), auth),
                                        "invite_user_to_project",
                                        <<S("role_id", A("role")), S("user_id", A("user"))>>, out)),
               MarkedFailed(out), "Unable to invite user to project"),
        "success", "Successfully invited user to project.")

ProjectInvite ==
    /\ pc = "command"
    /\ \E auth \in AuthOutcomes, out \in ProviderOutcomes(PyStr("invited")) :
         Finish(InviteUserToProject(auth, out))

\* ---- project select

\* if project_id: hosting.get_project(project_id)
ProjectExists(st, out) ==
    IF st.exit # "none" \/ ~Truthy(st.l.project_id) THEN st
    ELSE HostingCall(st, "get_project", <<S("project_id", st.l.project_id)>>, out)

\* except httpx.HTTPStatusError as ex: console.error(detail); raise Exit(1)
CatchHttp(st) ==
    IF st.exit = "HTTPStatusError"
    THEN [st EXCEPT !.lg = Console(@, "error", "detail"), !.exit = "Exit(1)"]
    ELSE st

\* resolve the project id from the project name
ProjectIdByName(st, out) ==
    IF st.exit # "none" \/ ~Truthy(A("project_name")) \/ Truthy(st.l.project_id) THEN st
    ELSE IF out.exc # "none"
    THEN HostingCall(st, "search_project", <<S("project_name", A("project_name"))>>, out)
    ELSE [HostingCall(st, "search_project", <<S("project_name", A("project_name"))>>, out)
            EXCEPT !.l.project_id = IF Truthy(out.ret) THEN DictGet(out.ret, PyStr("id"), PyNone)
                                    ELSE PyNone]

SearchOutcomes ==
    {Outcome(PyNone), Outcome(PyDict(<<S("id", PyStr("p-name"))>>)),
     Raises("NotAuthenticatedError"), Raises("HTTPStatusError")}

SelectCall(st, out) ==
    Say(FailIf(HostingCall(st, "select_project", <<S("project", st.l.project_id)>>, out),
               MarkedFailed(out), FailedText.s),
        "success", "selected")

\* the flow up to the project id check
SelectResolved(auth, found, search) ==
    ProjectIdByName(CatchHttp(ProjectExists(
        Authenticated(St(CmdLocals("project select"), log), auth), found)), search)

RequireSelection(st) ==
    FailIf(st, ~Truthy(st.l.project_id),
           "No project selected. Please provide a valid project ID or name.")

SelectProject(auth, found, search, out) ==
    SelectCall(RequireSelection(SelectResolved(auth, found, search)), out)

ProjectSelect ==
    /\ pc = "command"
    /\ \E auth \in AuthOutcomes, found \in ProviderOutcomes(ProjectRecord),
          search \in SearchOutcomes, out \in ProviderOutcomes(PyStr("selected")) :
         Finish(SelectProject(auth, found, search, out))

\* ---- project selected

\* except Exception as e: console.error(...), and nothing is raised
CatchAnyNoRaise(st, text) ==
    IF st.exit \notin {"none", "NotAuthenticatedError"}
    THEN [st EXCEPT !.lg = Console(@, "error", text), !.exit = "none"]
    ELSE st

\* the table row needs project_details["name"]
SelectedDetails(st, out) ==
    IF out.exc = "none" /\ out.ret.t # "dict"
    THEN Stop(HostingCall(st, "get_project", <<S("project_id", selected)>>, out), "TypeError")
    ELSE Say(HostingCall(st, "get_project", <<S("project_id", selected)>>, out),
             "print_table", "Selected Project ID")

\* project = hosting.get_selected_project()
AskSelected(st) == [st EXCEPT !.lg = Called(@, "get_selected_project", <<>>, selected)]

GetSelectProject(auth, out) ==
    IF Truthy(selected)
    THEN CatchAnyNoRaise(CatchNotAuthNoRaise(SelectedDetails(
             Authenticated(AskSelected(St(CmdLocals("project selected"), log)), auth), out)),
             "Unable to get the currently selected project")
    ELSE Say(AskSelected(St(CmdLocals("project selected"), log)),
             "warn", "no selected project. run reflex cloud project select to set one.")

ProjectSelected ==
    /\ pc = "command"
    /\ \E auth \in AuthOutcomes, out \in ProviderOutcomes(ProjectRecord) :
         Finish(GetSelectProject(auth, out))

\* ---- project list

\* except Exception as e: console.error(...); raise Exit(1)
CatchAny(st, text) ==
    IF st.exit \notin {"none", "NotAuthenticatedError"}
    THEN [st EXCEPT !.lg = Console(@, "error", text), !.exit = "Exit(1)"]
    ELSE st

GetProjects(auth, out) ==
    CatchNotAuthNoRaise(CatchAny(
        Shown(HostingCall(Authenticated(St(CmdLocals("project list"), log), auth),
                          "get_projects", <<>>, out), out.ret),
        "Unable to get projects"))

ProjectList ==
    /\ pc = "command"
    /\ \E auth \in AuthOutcomes, out \in ProviderOutcomes(PyList(<<ProjectRecord>>)) :
         Finish(GetProjects(auth, out))

\* ---- project roles, role-permissions, users

\* if project_id is None: project_id = hosting.get_selected_project()
SelectedIfNone(st) ==
    IF st.exit # "none" \/ st.l.project_id # PyNone THEN st
    ELSE [st EXCEPT !.l.project_id = selected,
                    !.lg = Called(@, "get_selected_project", <<>>, selected)]

RequireProjectId(st) ==
    FailIf(st, st.l.project_id = PyNone, "no project_id provided or selected.")

QueryCall(st, fn, out) ==
    Shown(HostingCall(st, fn, <<S("project_id", st.l.project_id)>>, out), out.ret)

ProjectQuery(cmd, fn, auth, search, out) ==
    CatchNotAuth(QueryCall(RequireProjectId(SelectedIfNone(ProjectIdByName(
        Authenticated(St(CmdLocals(cmd), log), auth), search))), fn, out))

RoleList == PyList(<<PyDict(<<S("id", PyStr("r-1"))>>)>>)

ProjectRoles ==
    /\ pc = "command"
    /\ \E auth \in AuthOutcomes, search \in SearchOutcomes, out \in ProviderOutcomes(RoleList) :
         Finish(ProjectQuery("project roles", "get_project_roles", auth, search, out))

ProjectRolePermissions ==
    /\ pc = "command"
    /\ \E auth \in AuthOutcomes, search \in SearchOutcomes, out \in ProviderOutcomes(RoleList) :
         Finish(ProjectQuery("project role-permissions", "get_project_role_permissions",
                             auth, search, out))

ProjectUsers ==
    /\ pc = "command"
    /\ \E auth \in AuthOutcomes, search \in SearchOutcomes, out \in ProviderOutcomes(RoleList) :
         Finish(ProjectQuery("project users", "get_project_role_users", auth, search, out))

\* ---- one command per run

CommandPairs ==
    <<S("app_id", PyStr("a-cli")), S("project_id", PyStr("p-cli")),
      S("project_name", PyStr("proj")), S("as_json", PyBool("True")),
      S("envfile", PyStr("cli.env")), S("envs", PyList(<<PyStr("K=V")>>)),
      S("interactive", PyBool("False"))>>

CommandArgs == UNION {{PyDict(sec) : sec \in Sections(CommandPairs, n)} : n \in 0..MaxPicks}

CommandConfigs ==
    {PyNone,
     ConfigFromData(YamlPath, PyDict(<<>>)).ret,
     ConfigFromData(YamlPath, PyDict(<<S("appid", PyStr("a-file"))>>)).ret,
     ConfigFromData(YamlPath, PyDict(<<S("appid", PyInt("5"))>>)).ret}

InitCommands ==
    /\ yamlFile = Absent
    /\ tomlFile = Absent
    /\ pyyaml = TRUE
    /\ last = Idle
    /\ pc = "command"
    /\ arg \in CommandArgs
    /\ cfgFile \in CommandConfigs
    /\ selected \in SelectedProjects
    /\ loc = PyNone
    /\ tmpdir = "none"
    /\ log = <<>>
    /\ exitc = "running"

NextCommands ==
    \/ SecretsList \/ SecretsUpdate \/ SecretsDelete
    \/ ProjectCreate \/ ProjectInvite \/ ProjectSelect \/ ProjectSelected \/ ProjectList
    \/ ProjectRoles \/ ProjectRolePermissions \/ ProjectUsers

SpecCommands == InitCommands /\ [][NextCommands]_vars

\* ================================================================ claims

PublicFields == FieldNames \ {"_cloud_config_path"}
SeqSet(q) == {q[i] : i \in 1..Len(q)}
Loaders == {"from_yaml", "from_toml"}
Layered == {"from_yaml_or_toml_or_none", "from_yaml_or_toml_or_default"}

\* The schema of section 3 of the specification, field by field.
SchemaFieldOK(f, v) ==
    CASE f \in {"name", "description", "hostname", "project", "appid", "strategy"}
           -> v.t \in {"str", "NoneType"}
      [] f = "envfile" -> v.t = "str"
      [] f = "vmtype" -> v = PyNone \/ (v.t = "str" /\ v.s \in SeqSet(VmType.lits))
      [] f = "regions" ->
           \/ v = PyNone
           \/ /\ v.t = "dict"
              /\ \A i \in 1..Len(v.e) :
                   /\ v.e[i].e[1].t = "str"
                   /\ v.e[i].e[1].s \in SeqSet(RegionOption.lits)
                   /\ v.e[i].e[2].t = "int"
      [] f = "packages" -> v.t = "list" /\ \A i \in 1..Len(v.e) : v.e[i].t = "str"
      [] OTHER -> TRUE

SchemaOK(c) == \A f \in PublicFields : SchemaFieldOK(f, Attr(c, f))

\* C1: no Config instance with a schema-violating public field is ever
\* produced: a construction (direct, from_yaml/from_toml, with_overrides)
\* returns an instance only if every public field satisfies the schema.
C1_NoInvalidInstance ==
    (last.op \in {"Config", "with_overrides"} \cup Loaders /\ IsConfig(last.ret))
        => SchemaOK(last.ret)

\* C5: with_overrides on a valid base with an override whose value violates
\* the declared type of its field raises ConfigInvalidFieldValueError.
C5_OverrideRevalidates ==
    (/\ last.op = "with_overrides"
     /\ SchemaOK(last.base)
     /\ \E i \in 1..Len(last.kwargs.e) :
          ~SchemaFieldOK(last.kwargs.e[i].e[1].s, last.kwargs.e[i].e[2]))
        => (last.exc = "ConfigInvalidFieldValueError" /\ ~IsConfig(last.ret))

C7_LayerOrder ==
    last.op \in Layered =>
        /\ Len(last.calls) \in {1, 2}
        /\ last.calls[1].fn = "from_yaml"
        /\ last.calls[1].exc = "none" =>
              /\ Len(last.calls) = 1
              /\ IsConfig(last.ret)
              /\ Attr(last.ret, "_cloud_config_path") = YamlPath
        /\ Len(last.calls) = 2 =>
              /\ last.calls[2].fn = "from_toml"
              /\ last.calls[1].exc = "ConfigError"
        /\ (/\ last.exc = "none"
            /\ \/ last.ret = PyNone
               \/ IsConfig(last.ret) /\ Attr(last.ret, "_cloud_config_path") = PyNone)
              => /\ Len(last.calls) = 2
                 /\ last.calls[1].exc = "ConfigError"
                 /\ last.calls[2].exc = "ConfigError"
                 /\ last.op = "from_yaml_or_toml_or_none" <=> last.ret = PyNone

\* the manifest's Config returned after the YAML load raised ConfigError
C7_Witness ==
    /\ last.op = "from_yaml_or_toml_or_none"
    /\ Len(last.calls) = 2
    /\ last.calls[1].exc = "ConfigError"
    /\ IsConfig(last.ret)
    /\ Attr(last.ret, "_cloud_config_path") = TomlPath
    /\ Attr(last.ret, "name") = PyStr("app")

\* What a file sets for field f: its value unless null, else the default.
ExpectedField(d, f) ==
    IF DictGet(d, PyStr(f), PyNone) # PyNone THEN DictGet(d, PyStr(f), PyNone)
    ELSE FieldDefault(f)

\* The [tool.reflex-cloud] table of the manifest.
TomlTable == DictGet(DictGet(tomlFile.doc, PyStr("tool"), PyDict(<<>>)), PyStr("reflex-cloud"), PyNone)
\* The document the last loader call read, while its file is still there.
LoadedDoc == IF last.op = "from_yaml" THEN yamlFile.doc ELSE TomlTable
LoadedPath == IF last.op = "from_yaml" THEN YamlPath ELSE TomlPath
LoadedFileRead ==
    /\ last.op \in Loaders
    /\ last.op = "from_yaml" => (yamlFile.st = "ok" /\ pyyaml)
    /\ last.op = "from_toml" =>
          /\ tomlFile.st = "ok"
          /\ DictGet(tomlFile.doc, PyStr("tool"), PyNone).t = "dict"
          /\ DictHas(DictGet(tomlFile.doc, PyStr("tool"), PyNone), PyStr("reflex-cloud"))

EnvTable(d) == DictGet(d, PyStr("env"), PyDict(<<>>))
ProfileTable(d, env) == DictGet(EnvTable(d), env, PyDict(<<>>))

\* C8: a profile-scoped load takes field values only from env[E]: a field
\* set there gets that value, any other field its default, and a missing
\* env table or profile yields an all-default Config bound to the file path.
C8_ProfileScoped ==
    (LoadedFileRead /\ Truthy(last.env)) =>
        /\ IsConfig(last.ret) =>
              /\ \A f \in PublicFields :
                   Attr(last.ret, f) = ExpectedField(ProfileTable(LoadedDoc, last.env), f)
              /\ Attr(last.ret, "_cloud_config_path") = LoadedPath
        /\ (/\ LoadedDoc.t = "dict"
            /\ \/ ~DictHas(LoadedDoc, PyStr("env"))
               \/ EnvTable(LoadedDoc).t = "dict" /\ ~DictHas(EnvTable(LoadedDoc), last.env))
              => /\ IsConfig(last.ret)
                 /\ \A f \in PublicFields : Attr(last.ret, f) = FieldDefault(f)

\* env.staging.vmtype wins over a different top-level vmtype
C8_Witness ==
    /\ LoadedFileRead
    /\ last.env = PyStr("staging")
    /\ IsConfig(last.ret)
    /\ DictGet(LoadedDoc, PyStr("vmtype"), PyNone) = PyStr("c1m1")
    /\ Attr(last.ret, "vmtype") = PyStr("c2m4")

\* The section a load constructs from, with the keys that are no Config
\* field and the keys whose value is null taken out.
RECURSIVE StripItems(_, _)
StripItems(items, i) ==
    IF i > Len(items) THEN <<>>
    ELSE (IF items[i].e[1].s \in FieldNames /\ items[i].e[2].t # "NoneType"
          THEN <<items[i]>> ELSE <<>>) \o StripItems(items, i + 1)

Section0 == IF Truthy(last.env) THEN ProfileTable(LoadedDoc, last.env) ELSE LoadedDoc

SameOutcome(a, b) == a.ret = b.ret /\ a.exc = b.exc /\ a.msg = b.msg

\* C9: a load drops every key that is no Config field and every key whose
\* value is null: it ends as the construction from the remaining keys
\* alone does, a null never replaces a default and an unknown key alone
\* never makes the load fail.
C9_UnknownAndNullDropped ==
    (/\ LoadedFileRead
     /\ LoadedDoc.t = "dict"
     /\ EnvTable(LoadedDoc).t = "dict"
     /\ Section0.t = "dict") =>
        /\ IF DictGet(Section0, PyStr("_cloud_config_path"), PyNone) # PyNone
           THEN last.exc = "TypeError"
           ELSE SameOutcome(last, ConfigInit(PyDict(
                    <<S("_cloud_config_path", LoadedPath)>> \o StripItems(Section0.e, 1))))
        /\ IsConfig(last.ret) =>
              \A f \in PublicFields : Attr(last.ret, f) = ExpectedField(Section0, f)
        /\ (\A i \in 1..Len(Section0.e) :
               \/ Section0.e[i].e[1].s \notin FieldNames
               \/ Section0.e[i].e[2] = PyNone)
              => /\ IsConfig(last.ret)
                 /\ \A f \in PublicFields : Attr(last.ret, f) = FieldDefault(f)

\* `envfile: null` and an unknown key: loaded, envfile at its default
C9_Witness ==
    /\ LoadedFileRead
    /\ last.op = "from_yaml"
    /\ ~Truthy(last.env)
    /\ DictHas(LoadedDoc, PyStr("envfile"))
    /\ DictHas(LoadedDoc, PyStr("color"))
    /\ IsConfig(last.ret)
    /\ Attr(last.ret, "envfile") = PyStr(".env")

\* The source path of the Config whose validation the last call ran.
SourcePath ==
    IF last.op \in Loaders THEN LoadedPath
    ELSE IF last.op = "with_overrides" /\ ~DictHas(last.kwargs, PyStr("_cloud_config_path"))
    THEN Attr(last.base, "_cloud_config_path")
    ELSE PyNone

\* C10: a validation failure of a Config that carries a source file path
\* has a message that starts with that file's name.
C10_ErrorNamesFile ==
    (/\ last.op \in Loaders \cup {"with_overrides"}
     /\ last.exc = "ConfigInvalidFieldValueError"
     /\ SourcePath.t = "PosixPath")
        => (Len(last.msg) >= 2 /\ last.msg[1] = "Invalid " /\ last.msg[2] = PathName(SourcePath))

\* ---- deploy

LogIdx == 1..Len(log)
\* the merge of the config file has run
Merged == \E i \in LogIdx : log[i].fn = "read_config"

\* C2: in deploy, when a config file is loaded and the caller passed a
\* non-empty app name, description, regions, vmtype, hostname, envfile,
\* project or app id, the flow after the merge works with the caller's value
\* of that field, not the file's.
C2_CallerValueWins ==
    (Merged /\ Truthy(cfgFile)) =>
        /\ Truthy(A("app_name")) => loc.app_name = A("app_name")
        /\ Truthy(A("description")) => loc.description = A("description")
        /\ Truthy(A("regions")) => loc.regions = A("regions")
        /\ Truthy(A("vmtype")) => loc.vmtype = A("vmtype")
        /\ Truthy(A("hostname")) => loc.hostname = A("hostname")
        /\ Truthy(A("envfile")) => loc.envfile = A("envfile")
        /\ Truthy(A("project")) => loc.project_id = A("project")
        /\ Truthy(A("app_id")) => loc.app_id = A("app_id")

\* C3: once an export_fn call (backend or frontend) has raised, deploy has
\* ended with Exit(1), the temporary export directory is deleted, and the run
\* holds no call of create_deployment or watch_deployment_status.
C3_ExportFailureCleansUp ==
    (\E i \in LogIdx : log[i].fn = "export_fn" /\ log[i].exc # "none") =>
        /\ pc = "done"
        /\ exitc = "Exit(1)"
        /\ tmpdir = "deleted"
        /\ \A j \in LogIdx : log[j].fn \notin {"create_deployment", "watch_deployment_status"}

\* A run whose backend export returned and whose frontend export raised.
C3_Witness ==
    /\ pc = "done"
    /\ tmpdir = "deleted"
    /\ \E i \in LogIdx : \E j \in LogIdx :
         /\ i < j
         /\ log[i].fn = "export_fn" /\ log[i].exc = "none"
         /\ log[j].fn = "export_fn" /\ log[j].exc = "ImportError"

\* C4: whenever deploy has ended after creating the temporary export
\* directory (export failure, 'failed' marker on submit, failed deployment
\* status, success), the directory has been deleted.
C4_TempDirDeleted ==
    (pc = "done" /\ tmpdir # "none") => tmpdir = "deleted"

\* ---- Config, continued

\* the pyproject.toml on disk has no tool table, or a tool table without
\* the reflex-cloud subsection
NoCloudTable ==
    /\ tomlFile.st = "ok"
    /\ tomlFile.doc.t = "dict"
    /\ \/ ~DictHas(tomlFile.doc, PyStr("tool"))
       \/ /\ DictGet(tomlFile.doc, PyStr("tool"), PyNone).t = "dict"
          /\ ~DictHas(DictGet(tomlFile.doc, PyStr("tool"), PyNone), PyStr("reflex-cloud"))

\* C11: from_toml on an existing manifest without a tool table, or whose
\* tool table has no reflex-cloud subsection, raises ConfigError with the
\* "Invalid TOML file format" message, which is not the message of the
\* file-not-found error, and returns no Config.
C11_MissingTableIsFormatError ==
    (last.op = "from_toml" /\ NoCloudTable) =>
        /\ last.exc = "ConfigError"
        /\ last.msg[1] = "Invalid TOML file format at "
        /\ last.msg # FromToml(Absent, last.env).msg
        /\ ~IsConfig(last.ret)

\* from_toml has run on a manifest whose tool table holds another tool only.
C11_Witness ==
    /\ last.op = "from_toml"
    /\ NoCloudTable
    /\ DictHas(tomlFile.doc, PyStr("tool"))
    /\ last.exc = "ConfigError"

\* the file a Config was loaded from is still on disk
SourcePresent(c) ==
    \/ Attr(c, "_cloud_config_path") = YamlPath /\ yamlFile.st # "absent"
    \/ Attr(c, "_cloud_config_path") = TomlPath /\ tomlFile.st # "absent"

\* C12: a call of exists() returns True exactly when the Config carries a
\* source path and the file at that path is present at the time of the call;
\* so it is False for a default Config and after the file was removed.
C12_ExistsIffSourcePresent ==
    [][(last'.op = "exists" /\ last.op # "exists") =>
          /\ last'.exc = "none"
          /\ last'.ret = PyBool(IF SourcePresent(last'.base) THEN "True" ELSE "False")]_vars

\* exists() has answered False for a Config loaded from cloud.yml.
C12_Witness ==
    /\ last.op = "exists"
    /\ Attr(last.base, "_cloud_config_path") = YamlPath
    /\ last.ret = PyBool("False")

\* every keyword argument satisfies the schema of its field
KwargsOK(kwargs) ==
    \A i \in 1..Len(kwargs.e) : SchemaFieldOK(kwargs.e[i].e[1].s, kwargs.e[i].e[2])

\* the instance carries every keyword argument as given and the declared
\* default for every other field
BuiltFrom(c, kwargs) ==
    /\ IsConfig(c)
    /\ \A f \in FieldNames : Attr(c, f) = DictGet(kwargs, PyStr(f), FieldDefault(f))

\* C13: Config(**kwargs) with schema-satisfying values constructs an
\* instance holding those values, and with_overrides() with no overrides
\* returns a Config equal to the receiver, source path included.
C13_ValidConstructsAndRoundTrips ==
    /\ (last.op = "Config" /\ KwargsOK(last.kwargs))
          => (last.exc = "none" /\ BuiltFrom(last.ret, last.kwargs))
    /\ (last.op = "with_overrides" /\ last.kwargs = PyDict(<<>>))
          => (last.exc = "none" /\ last.ret = last.base)

\* with_overrides() has run on a Config that carries a source path and a name.
C13_Witness ==
    /\ last.op = "with_overrides"
    /\ last.kwargs = PyDict(<<>>)
    /\ IsConfig(last.ret)
    /\ Attr(last.base, "_cloud_config_path") = YamlPath
    /\ Attr(last.base, "name") = PyStr("app")

\* C14: with_overrides leaves its receiver as it was, whether it returns or
\* raises, and a Config it returns holds the override value in every named
\* field and the receiver's value in every other field.
C14_OverrideTouchesNamedOnly ==
    [][(last'.op = "with_overrides" /\ last.op # "with_overrides") =>
          /\ last'.base = Held
          /\ IsConfig(last'.ret) =>
                \A f \in FieldNames :
                    Attr(last'.ret, f) = DictGet(last'.kwargs, PyStr(f), Attr(Held, f))]_vars

\* with_overrides has returned a Config that differs from its receiver.
C14_Witness ==
    /\ last.op = "with_overrides"
    /\ IsConfig(last.ret)
    /\ last.ret # last.base
    /\ Attr(last.ret, "name") = PyStr("web")

\* ---- deploy, continued

NonZero == {"Exit(1)", "SystemExit(1)", "NotAuthenticatedError", "HTTPStatusError"}
Lookups == {"search_app", "get_app"}
AfterResolution ==
    {"search_app", "get_app", "create_app", "get_hostname", "export_fn", "create_deployment"}

\* identity resolution ended with no project: none was given, configured or
\* found by name, and get_selected_project returned nothing
NoProjectResolved ==
    \E i \in LogIdx :
        /\ log[i].fn = "get_selected_project"
        /\ ~Truthy(log[i].ret)
        /\ \A j \in 1..(i - 1) : log[j].fn \notin Lookups \cup {"get_project"}

\* C15: when identity resolution ends with no project, deploy has ended
\* with a non-zero exit and has made no app lookup, app creation, hostname
\* request, export or upload.
C15_NoProjectFails ==
    NoProjectResolved =>
        /\ pc = "done"
        /\ exitc \in NonZero
        /\ \A i \in LogIdx : log[i].fn \notin AfterResolution

\* C15, amended: when identity resolution ends with no project, the project
\* id deploy validates and submits is the project id of the app it found or
\* created.
C15_ProjectFromApp ==
    NoProjectResolved =>
        \A i \in LogIdx :
            log[i].fn \in {"validate_deployment_args", "create_deployment"} =>
                DictGet(log[i].args, PyStr("project_id"), PyNone)
                    = DictGet(loc.app, PyStr("project_id"), PyNone)

\* A run with no project at all has submitted a deployment to the project
\* of the app it created.
C15_Witness ==
    /\ NoProjectResolved
    /\ \E i \in LogIdx : log[i].fn = "create_app"
    /\ \E i \in LogIdx :
          /\ log[i].fn = "create_deployment"
          /\ DictGet(log[i].args, PyStr("project_id"), PyNone) = PyStr("p-default")

\* the calls the step under way adds to the log
NewCalls == (Len(log) + 1)..Len(log')
Explicit == Truthy(A("project"))
ScopeOf(e) == DictGet(e.args, PyStr("project_id"), PyStr("no such argument"))

\* C16: every search_app call is scoped to the project id resolved before
\* it, except in a non-interactive run with no explicit project argument,
\* where it is scoped to the selected project.
C16_SearchScopedToResolved ==
    [][\A i \in NewCalls : log'[i].fn = "search_app" =>
          ScopeOf(log'[i]) = IF ~Interactive /\ ~Explicit THEN selected ELSE loc.project_id]_vars

\* C16, amended: every search_app call is scoped to the project id resolved
\* before it, except in an interactive run with no explicit project
\* argument, where it is scoped to no project.
C16_SearchScope ==
    [][\A i \in NewCalls : log'[i].fn = "search_app" =>
          ScopeOf(log'[i]) = IF Interactive /\ ~Explicit THEN PyNone ELSE loc.project_id]_vars

\* An interactive run whose project was checked with get_project has
\* searched the app in no project.
C16_Witness ==
    /\ Interactive
    /\ \E i \in LogIdx : \E j \in 1..(i - 1) :
          /\ log[i].fn = "search_app"
          /\ ScopeOf(log[i]) = PyNone
          /\ log[j].fn = "get_project"

DeploySteps == {"get_hostname", "export_fn", "create_deployment"}

\* the prompt "Deploy to app ... in project ...?" with the answer given
AskedDeployTo(i, ans) ==
    /\ log[i].fn = "console.ask"
    /\ DictGet(log[i].args, PyStr("prompt"), PyNone) = PyStr("deploy to app in project")
    /\ log[i].ret = PyStr(ans)

\* call i returned an app of a project other than the selected one
ForeignApp(i, fns) ==
    /\ log[i].fn \in fns
    /\ Truthy(log[i].ret)
    /\ DictGet(log[i].ret, PyStr("project_id"), PyNone) # selected

\* every hostname request, export and upload follows an accepted prompt,
\* and none follows a declined one
ConfirmedFirst ==
    /\ \A k \in LogIdx : log[k].fn \in DeploySteps => \E j \in 1..(k - 1) : AskedDeployTo(j, "y")
    /\ (\E j \in LogIdx : AskedDeployTo(j, "n")) => \A k \in LogIdx : log[k].fn \notin DeploySteps

\* C17: in an interactive run, once the lookup by name or by id has
\* returned an app of a project other than the selected one, every hostname
\* request, export and upload follows an accepted confirmation prompt, and
\* none follows a declined one.
C17_ForeignAppConfirmed ==
    (Interactive /\ \E i \in LogIdx : ForeignApp(i, Lookups)) => ConfirmedFirst

\* C17, amended: the same for an interactive run with no explicit project
\* argument whose lookup was by name.
C17_ForeignAppByNameConfirmed ==
    (Interactive /\ ~Explicit /\ \E i \in LogIdx : ForeignApp(i, {"search_app"})) => ConfirmedFirst

\* An interactive run has uploaded to an app of another project after the
\* user accepted the prompt.
C17_Witness ==
    /\ Interactive
    /\ ~Explicit
    /\ \E i \in LogIdx : ForeignApp(i, {"search_app"})
    /\ \E j \in LogIdx : AskedDeployTo(j, "y")
    /\ \E k \in LogIdx : log[k].fn = "create_deployment"

ZeroExit == {"return", "Exit(0)"}
Prompt(i) == DictGet(log[i].args, PyStr("prompt"), PyNone)
Msg(i) == DictGet(log[i].args, PyStr("msg"), PyNone)

\* the deployment was submitted and its status was watched to a good end
SubmittedOk ==
    /\ \E i \in LogIdx : log[i].fn = "create_deployment" /\ ~HasFailedMarker(log[i].ret)
    /\ \E i \in LogIdx : log[i].fn = "watch_deployment_status" /\ log[i].ret # PyBool("False")

\* the run met one of the failure points
FailurePoint ==
    \E i \in LogIdx :
        \/ log[i].exc # "none"
        \/ log[i].fn = "get_hostname" /\ DictHas(log[i].ret, PyStr("error"))
        \/ log[i].fn = "create_deployment" /\ HasFailedMarker(log[i].ret)
        \/ log[i].fn = "watch_deployment_status" /\ log[i].ret = PyBool("False")
        \/ log[i].fn = "validate_deployment_args" /\ log[i].ret # PyStr("success")
        \/ log[i].fn = "console.error"
             /\ Msg(i) \in {PyStr("Please provide a valid app name or ID for the deployed instance."),
                            PyStr("Please set an app name.")}

\* the user answered no to prompt p
Declined(ps) ==
    \E i \in LogIdx : log[i].fn = "console.ask" /\ Prompt(i) \in ps /\ log[i].ret = PyStr("n")

CreatePrompt == {PyStr("create a new app")}
ProjectPrompts == {PyStr("deploy to app in project"), PyStr("create and deploy in project")}

\* C18: a finished deploy run that met a failure point or in which the user
\* declined a prompt has a non-zero exit code, and a run that ended with
\* exit code 0 has submitted the deployment and seen a non-failed status.
C18_FailureIsNonZero ==
    pc = "done" =>
        /\ (FailurePoint \/ Declined(CreatePrompt \cup ProjectPrompts)) => exitc \in NonZero
        /\ exitc \in ZeroExit => SubmittedOk

\* C18, amended: a finished run that met a failure point or in which the
\* user declined to create the app has a non-zero exit code; a run in which
\* the user declined a project confirmation ends with exit code 0; any
\* other run that ended with exit code 0 has submitted the deployment and
\* seen a non-failed status.
C18_ExitCodes ==
    pc = "done" =>
        /\ (FailurePoint \/ Declined(CreatePrompt)) => exitc \in NonZero
        /\ Declined(ProjectPrompts) => exitc = "Exit(0)"
        /\ exitc \in ZeroExit => (SubmittedOk \/ Declined(ProjectPrompts))

\* A run ended with exit code 0 because the user declined to create the
\* app in the project shown.
C18_Witness ==
    /\ pc = "done"
    /\ exitc = "Exit(0)"
    /\ Declined({PyStr("create and deploy in project")})
    /\ ~SubmittedOk

\* the n-th positional argument of export call i: 1 the output directory,
\* 2 the backend URL, 3 the frontend URL, 4 the frontend flag, 5 the
\* backend flag
ExportArg(i, n) == DictGet(log[i].args, PyStr("args"), PyNone).e[n]
ExportCalls == {i \in LogIdx : log[i].fn = "export_fn"}
Returned(i) == log[i].exc = "none"
BackendExport(i) == ExportArg(i, 4) = PyBool("False") /\ ExportArg(i, 5) = PyBool("True")
FrontendExport(i) == ExportArg(i, 4) = PyBool("True") /\ ExportArg(i, 5) = PyBool("False")

\* before call i, get_hostname returned URLs and validate_deployment_args
\* returned "success"
Prepared(i) ==
    /\ \E h \in 1..(i - 1) :
          log[h].fn = "get_hostname" /\ Returned(h) /\ ~DictHas(log[h].ret, PyStr("error"))
    /\ \E v \in 1..(i - 1) :
          log[v].fn = "validate_deployment_args" /\ log[v].ret = PyStr("success")

\* C19: every export_fn call follows a successful get_hostname and a
\* successful validate_deployment_args; once two export_fn calls have
\* returned there are exactly two, the backend export and then the frontend
\* export, with the same output directory, backend URL and frontend URL;
\* and create_deployment is called only after both have returned.
C19_TwoExportsInOrder ==
    /\ \A i \in ExportCalls : Prepared(i)
    /\ (\E i \in ExportCalls : \E j \in ExportCalls : i < j /\ Returned(i) /\ Returned(j)) =>
          /\ Cardinality(ExportCalls) = 2
          /\ \A i \in ExportCalls : \A j \in ExportCalls : i < j =>
                /\ BackendExport(i)
                /\ FrontendExport(j)
                /\ \A n \in 1..3 : ExportArg(i, n) = ExportArg(j, n)
    /\ \A k \in LogIdx : log[k].fn = "create_deployment" =>
          \E i \in ExportCalls : \E j \in ExportCalls :
              i < j /\ j < k /\ Returned(i) /\ Returned(j)

\* A run whose two exports returned has submitted the deployment.
C19_Witness ==
    /\ Cardinality({i \in ExportCalls : Returned(i)}) = 2
    /\ \E k \in LogIdx : log[k].fn = "create_deployment"

\* C20: when deploy runs with an env file configured, the secrets it
\* submits are the pairs read from the env file, and when a non-empty envs
\* list is given as well it has emitted a warning.
C20_EnvfileWins ==
    \A i \in LogIdx : (log[i].fn = "create_deployment" /\ Truthy(loc.envfile)) =>
        /\ DictGet(log[i].args, PyStr("secrets"), PyNone) = DotenvValues(loc.envfile)
        /\ Truthy(loc.envs) => \E j \in LogIdx : log[j].fn = "console.warn"

Submits == {i \in LogIdx : log[i].fn = "create_deployment"}
Watches == {i \in LogIdx : log[i].fn = "watch_deployment_status"}
Printed(i, start) ==
    /\ log[i].fn = "console.print"
    /\ SubSeq(Msg(i).s, 1, Len(start)) = start

\* C21: watch_deployment_status is called only after a create_deployment
\* whose response has no 'failed' marker, with the dashboard URL and the
\* follow-along hint printed in between; a 'failed' response ends deploy
\* with Exit(1) and no status call; a finished run that watched the status
\* ended with Exit(1) if the status was False and returned otherwise.
C21_WatchAfterCleanSubmit ==
    /\ \A w \in Watches :
          /\ w > 3
          /\ log[w - 3].fn = "create_deployment" /\ ~HasFailedMarker(log[w - 3].ret)
          /\ Printed(w - 2, "deployment progress: /project/")
          /\ Printed(w - 1, "reflex cloud apps status ")
          /\ pc = "done"
          /\ exitc = IF log[w].ret = PyBool("False") THEN "Exit(1)" ELSE "return"
    /\ \A i \in Submits : HasFailedMarker(log[i].ret) =>
          (pc = "done" /\ exitc = "Exit(1)" /\ Watches = {})
    /\ \A i \in Submits : (pc = "done" /\ ~HasFailedMarker(log[i].ret)) => Watches # {}

\* A run returned after a status call that returned nothing.
C21_Witness ==
    /\ exitc = "return"
    /\ \E w \in Watches : log[w].ret = PyNone

ExportList(i) == DictGet(log[i].args, PyStr("args"), PyNone).e
AtLeast076 == VersionLE(ParseVersion("0.7.6"), ParseVersion(loc.rx_version.s))

\* C26: every export_fn call of a run has seven positional arguments, the
\* sixth being include_db, when the installed version is 0.7.6 or newer,
\* and six when it is older; so the two calls of a run have the same form.
C26_FormByVersion ==
    \A i \in ExportCalls :
        IF AtLeast076
        THEN Len(ExportList(i)) = 7 /\ ExportList(i)[6] = loc.include_db
        ELSE Len(ExportList(i)) = 6

ProjectOf(app) == DictGet(app, PyStr("project_id"), PyNone)

\* C27: the project id passed to create_deployment is the project id of
\* the app deploy found or created.
C27_SubmitsToAppProject ==
    \A i \in Submits : DictGet(log[i].args, PyStr("project_id"), PyNone) = ProjectOf(loc.app)

\* no config file is loaded, or the loaded one leaves envfile at its default
EnvfileNotConfigured ==
    ~Truthy(cfgFile) \/ Attr(cfgFile, "envfile") = FieldDefault("envfile")

\* C28: when the caller passes a non-empty envs list and no envfile, and no
\* loaded config file sets one, the secrets passed to create_deployment are
\* the processed envs list.
C28_EnvsSubmitted ==
    (Truthy(A("envs")) /\ ~Truthy(A("envfile")) /\ EnvfileNotConfigured) =>
        \A i \in Submits : DictGet(log[i].args, PyStr("secrets"), PyNone) = ProcessEnvs(A("envs"))

\* C29: create_app is never called with an empty app name, and a run that
\* stops with "Please set an app name." has called neither create_app nor
\* get_hostname.
C29_NoEffectWithoutName ==
    /\ \A i \in LogIdx : log[i].fn = "create_app" =>
          Truthy(DictGet(log[i].args, PyStr("app_name"), PyNone))
    /\ (\E i \in LogIdx : log[i].fn = "console.error" /\ Msg(i) = PyStr("Please set an app name.")) =>
          \A j \in LogIdx : log[j].fn \notin {"create_app", "get_hostname"}

\* ---- Config, content shapes

\* the paths a call of the loader may have been handed, when every file it
\* reads is on disk and parses
HandedPaths ==
    CASE last.op = "from_yaml" /\ yamlFile.st = "ok" -> {YamlPath}
      [] last.op = "from_toml" /\ tomlFile.st = "ok" -> {TomlPath}
      [] last.op \in Layered /\ yamlFile.st = "ok" /\ tomlFile.st = "ok" -> {YamlPath, TomlPath}
      [] OTHER -> {}

\* C30: a loader run on existing, parsable files ends by returning None or
\* a Config whose source path is the path it was handed, or by raising
\* ConfigError or ConfigInvalidFieldValueError, whatever the documents hold.
C30_LoadersEndCleanly ==
    HandedPaths # {} =>
        \/ last.exc \in {"ConfigError", "ConfigInvalidFieldValueError"}
        \/ /\ last.exc = "none"
           /\ \/ last.ret = PyNone
              \/ IsConfig(last.ret) /\ Attr(last.ret, "_cloud_config_path") \in HandedPaths

\* ---- validation

Given(k) == DictGet(last.kwargs, PyStr(k), PyNone)
Primitives == {"str", "int", "float", "bool"}
Rejected == last.exc = "ConfigInvalidFieldValueError"

\* C24: _validate_dispatch of a value against a primitive type rejects
\* every value whose type is not exactly that type, a bool given for int
\* included.
C24_ExactPrimitive ==
    (/\ last.op = "_validate_dispatch"
     /\ Given("_type").s \in Primitives
     /\ Given("value").t # Given("_type").s) => Rejected

\* the message names the field, the expectation and the offending value
NamesField(msg, field) ==
    /\ Len(msg) >= 6
    /\ msg[1] = "Invalid value for "
    /\ SubSeq(msg[2], 1, Len(field)) = field
    /\ msg[3] \in {". Expected a ", ". Expected one of "}
    /\ msg[5] = ", got "

\* C25: when _validate_dispatch of a dict against dict[RegionOption, int]
\* under the key regions fails, the error names regions, the expected type
\* and the offending key or value.
C25_RegionsErrorNamesField ==
    (/\ last.op = "_validate_dispatch"
     /\ Given("_type") = PyStr("dict[RegionOption, int]")
     /\ Given("key") = PyStr("regions")
     /\ Given("value").t = "dict"
     /\ last.exc # "none") =>
        /\ Rejected
        /\ NamesField(last.msg, "regions")

\* ---------------------------------------------- commands, error handling

\* a call of the run raised NotAuthenticatedError
NotAuthenticatedRaised == \E i \in LogIdx : log[i].exc = "NotAuthenticatedError"

\* the run printed the error text
ErrorPrinted(text) ==
    \E i \in LogIdx : log[i].fn = "console.error" /\ log[i].args = PyDict(<<S("msg", PyStr(text))>>)

\* C22: in every command, a NotAuthenticatedError raised while obtaining the
\* authenticated client or calling the provider is caught inside the command
\* and replaced by the re-authenticate message; it never leaves the command
\* as an unhandled exception.
C22_NotAuthenticatedCaught ==
    (pc = "done" /\ NotAuthenticatedRaised)
        => (exitc # "NotAuthenticatedError" /\ ErrorPrinted(ReauthMsg))

\* the error texts of the handled failures: not authenticated, a 'failed'
\* response, a provider HTTP error, a missing app or project id
HandledFailureTexts ==
    {ReauthMsg, FailedText.s, "detail", "Unable to invite user to project",
     "Unable to get the currently selected project", "Unable to get projects",
     "No valid app_id provided.",
     "No project selected. Please provide a valid project ID or name.",
     "no project_id provided or selected."}

HandledFailure == \E text \in HandledFailureTexts : ErrorPrinted(text)

\* C23: every command run that prints an error for a handled failure ends
\* with exit code 1, and exit code 0 is returned only by runs in which no
\* such error was printed; this covers project selected and project list
\* when the user is not authenticated.
C23_HandledFailureExitsOne ==
    pc = "done" => /\ HandledFailure => exitc = "Exit(1)"
                   /\ exitc = "return" => ~HandledFailure
====
